---- MODULE Spec2Model ----
(***************************************************************************)
(* Authentication and session lifecycle of the user-management backend:    *)
(* AuthService (register, login, refreshToken, logout, changePassword,     *)
(* verifyEmail), the admin operations of UserService, the refresh-token    *)
(* helpers of the User model and the AuthMiddleware guard.                 *)
(*                                                                         *)
(* A request is a process: it runs from one database operation (an await)  *)
(* to the next in one step, holding its own in-memory copy of the user     *)
(* document.  user.save() persists the paths the request modified; the     *)
(* refreshTokens array is persisted as a whole.                            *)
(***************************************************************************)
EXTENDS Integers, Sequences, FiniteSets, TLC

\* ------------------------------------------------------------------ bounds
\* the clock runs over the seconds 0..MaxTime
MaxTime == 2
\* how many opaque random tokens crypto.randomBytes is asked for
MaxRand == 3
\* the clock of the specifications with two requests in flight: 0..MaxTimeConc
MaxTimeConc == 1

\* ------------------------------------------------- configuration, in seconds
\* JWT_REFRESH_EXPIRES_IN and dayjs().add(30, 'days'), scaled to the clock
RefreshTtl == 2
\* JWT_EXPIRES_IN, scaled to the clock
AccessTtl == 1
\* config.security.emailVerificationExpires, scaled to the clock
VerifyTtl == 2
\* config.security.passwordResetExpires (PASSWORD_RESET_EXPIRES), scaled
ResetTtl == 1
\* addRefreshToken keeps the last 5 tokens
MaxRefreshTokens == 5

\* ------------------------------------------------------------ input domains
Ids == {1, 2}
Slots == {1, 2}
Emails == {"a@x.io", "A@x.io", "b@x.io", "B@x.io"}
Usernames == {"ann", "ANN", "bob", "BOB"}
Passwords == {"pw1", "pw2"}

\* String.prototype.toLowerCase on the inputs above
ToLowerCase(s) ==
  CASE s = "A@x.io" -> "a@x.io"
    [] s = "B@x.io" -> "b@x.io"
    [] s = "ANN" -> "ann"
    [] s = "BOB" -> "bob"
    [] OTHER -> s

\* ------------------------------------------------------------ crypto and JWT
\* bcrypt.hash: the hash determines the password it was made from
hashPassword(p) == [bcrypt |-> p]
\* bcrypt.compare
comparePassword(p, h) == h.bcrypt = p
\* sha256 of a raw opaque token (raw tokens are 1..MaxRand, 0 is null)
hashToken(t) == [sha |-> t]
NoHash == [sha |-> 0]

\* jwt.sign with the refresh secret: payload {userId}, iat = the current
\* second, exp = iat + expiresIn; HS256 is deterministic
generateRefreshToken(uid, t) ==
  [key |-> "refresh", sub |-> uid, iat |-> t, exp |-> t + RefreshTtl]
\* jwt.sign with the access secret: payload {userId, email, role, username}
generateAccessToken(uid, doc, t) ==
  [key |-> "access", sub |-> uid, email |-> doc.email, role |-> doc.role,
   username |-> doc.username, iat |-> t, exp |-> t + AccessTtl]
NoAccess ==
  [key |-> "none", sub |-> 0, email |-> "", role |-> "", username |-> "",
   iat |-> 0, exp |-> 0]
NoRefresh == [key |-> "none", sub |-> 0, iat |-> 0, exp |-> 0]
\* jwt.verify with the refresh secret: signature, then expiry
verifyRefreshToken(tok, t) == tok.key = "refresh" /\ t < tok.exp
\* jwt.verify with the access secret
verifyAccessToken(tok, t) == tok.key = "access" /\ t < tok.exp

\* ------------------------------------------------------------ the User model
NoDoc ==
  [exists |-> FALSE, email |-> "", username |-> "", passwordHash |-> hashPassword(""),
   role |-> "", emailVerified |-> FALSE, isActive |-> FALSE, isBlocked |-> FALSE,
   refreshTokens |-> << >>, emailVerificationToken |-> NoHash,
   emailVerificationExpiry |-> -1, resetToken |-> NoHash, resetTokenExpiry |-> -1,
   lastLogin |-> -1, status |-> "pending_verification", deletionRequestedAt |-> -1]

\* UserSchema.methods.isValidRefreshToken
isValidRefreshToken(doc, token, t) ==
  \E i \in 1..Len(doc.refreshTokens) :
    doc.refreshTokens[i].token = token /\ doc.refreshTokens[i].expiresAt > t

\* the mutant of addRefreshToken: the cap is never applied
addRefreshTokenNoShift(doc, token, expiresAt) ==
  [doc EXCEPT !.refreshTokens = Append(@, [token |-> token, expiresAt |-> expiresAt])]

\* UserSchema.methods.addRefreshToken
addRefreshToken(doc, token, expiresAt) ==
  LET kept == IF Len(doc.refreshTokens) >= MaxRefreshTokens
              THEN Tail(doc.refreshTokens) ELSE doc.refreshTokens
  IN [doc EXCEPT !.refreshTokens = Append(kept, [token |-> token, expiresAt |-> expiresAt])]

\* the mutant of removeRefreshToken: splice(indexOf(token), 1), which drops the
\* last entry when the token is not in the list
removeRefreshTokenSplice(doc, token) ==
  LET list == doc.refreshTokens
      at == {i \in 1..Len(list) : list[i].token = token}
      i == IF at = {} THEN Len(list) ELSE CHOOSE k \in at : \A q \in at : k <= q
  IN [doc EXCEPT !.refreshTokens =
        IF list = << >> THEN list
        ELSE SubSeq(list, 1, i - 1) \o SubSeq(list, i + 1, Len(list))]

\* UserSchema.methods.removeRefreshToken
removeRefreshToken(doc, token) ==
  LET Keep(rt) == rt.token # token
  IN [doc EXCEPT !.refreshTokens = SelectSeq(@, Keep)]

\* UserSchema.pre('save'): drop the expired refresh tokens
\* the mutant of preSave: a token in its last second is dropped as well
preSaveEarly(doc, t) ==
  LET Keep(rt) == rt.expiresAt > t + 1
  IN [doc EXCEPT !.refreshTokens = SelectSeq(@, Keep)]

\* UserSchema.pre('save'): the expired refresh tokens are dropped
preSave(doc, t) ==
  LET Keep(rt) == rt.expiresAt > t
  IN [doc EXCEPT !.refreshTokens = SelectSeq(@, Keep)]

\* user.save() of a loaded document: the pre-save hook runs, then the modified
\* paths are written over the stored document
persist(stored, local, dirty) ==
  [exists |-> stored.exists,
   email |-> IF "email" \in dirty THEN local.email ELSE stored.email,
   username |-> IF "username" \in dirty THEN local.username ELSE stored.username,
   passwordHash |-> IF "passwordHash" \in dirty THEN local.passwordHash
                    ELSE stored.passwordHash,
   role |-> IF "role" \in dirty THEN local.role ELSE stored.role,
   emailVerified |-> IF "emailVerified" \in dirty THEN local.emailVerified
                     ELSE stored.emailVerified,
   isActive |-> IF "isActive" \in dirty THEN local.isActive ELSE stored.isActive,
   isBlocked |-> IF "isBlocked" \in dirty THEN local.isBlocked ELSE stored.isBlocked,
   refreshTokens |-> IF "refreshTokens" \in dirty THEN local.refreshTokens
                     ELSE stored.refreshTokens,
   emailVerificationToken |-> IF "emailVerificationToken" \in dirty
                              THEN local.emailVerificationToken
                              ELSE stored.emailVerificationToken,
   emailVerificationExpiry |-> IF "emailVerificationExpiry" \in dirty
                               THEN local.emailVerificationExpiry
                               ELSE stored.emailVerificationExpiry,
   resetToken |-> IF "resetToken" \in dirty THEN local.resetToken
                  ELSE stored.resetToken,
   resetTokenExpiry |-> IF "resetTokenExpiry" \in dirty THEN local.resetTokenExpiry
                        ELSE stored.resetTokenExpiry,
   lastLogin |-> IF "lastLogin" \in dirty THEN local.lastLogin ELSE stored.lastLogin,
   status |-> IF "status" \in dirty THEN local.status ELSE stored.status,
   deletionRequestedAt |-> IF "deletionRequestedAt" \in dirty
                           THEN local.deletionRequestedAt
                           ELSE stored.deletionRequestedAt]

\* the mutant of duplicateKey: username has no unique index
duplicateKeyEmailOnly(store, id, email, username) ==
  \E o \in Ids : o # id /\ store[o].exists /\ store[o].email = email

\* the unique indexes on email and username: would storing these values under
\* id collide with another stored document?
duplicateKey(store, id, email, username) ==
  \E o \in Ids :
    o # id /\ store[o].exists /\ (store[o].email = email \/ store[o].username = username)

\* ---------------------------------------------------------------- the state
VARIABLES
  db,      \* the users collection: Ids -> document (NoDoc where there is none)
  nextId,  \* the _id the next inserted document gets
  now,     \* the clock, in seconds
  rnd,     \* how many opaque random tokens have been drawn
  reqs,    \* the requests in flight: Slots -> request (Idle where there is none)
  resp,    \* the response sent last (NoResp while the next request is being served)
  held,    \* the access token the client holds: the one issued last
  hist     \* history of the run, as far as the specification records it (hist.obs)

vars == << db, nextId, now, rnd, reqs, resp, held, hist >>

NoSnap ==
  [valid |-> FALSE, revoked |-> FALSE, blocked |-> FALSE, live |-> FALSE,
   dup |-> FALSE, used |-> FALSE, stale |-> FALSE, superseded |-> FALSE,
   again |-> FALSE, verified |-> FALSE, marked |-> FALSE,
   dupEmail |-> FALSE, dupUsername |-> FALSE, kept |-> FALSE]

\* what the history and the store say about a request when it arrives
SnapOf(uid, tok, raw, email, username) ==
  [valid |-> uid \in Ids /\ db[uid].exists /\ isValidRefreshToken(db[uid], tok, now),
   revoked |-> tok \in hist.revoked,
   blocked |-> uid \in hist.blockOn,
   live |-> uid \in Ids /\ db[uid].exists /\ db[uid].isActive /\ ~db[uid].isBlocked,
   dup |-> \E o \in Ids : db[o].exists /\ (db[o].email = ToLowerCase(email)
                                           \/ db[o].username = ToLowerCase(username)),
   used |-> raw \in hist.usedRaw,
   stale |-> \E o \in Ids :
               /\ db[o].exists
               /\ \/ /\ db[o].emailVerificationToken = hashToken(raw)
                     /\ db[o].emailVerificationToken # NoHash
                     /\ db[o].emailVerificationExpiry <= now
                  \/ /\ db[o].resetToken = hashToken(raw)
                     /\ db[o].resetToken # NoHash
                     /\ db[o].resetTokenExpiry <= now,
   superseded |-> raw \in hist.superseded,
   again |-> uid # 0 /\ hist.lastLogout.uid = uid /\ hist.lastLogout.tok = tok,
   verified |-> uid \in hist.verified,
   marked |-> uid \in hist.marked,
   dupEmail |-> \E o \in Ids \ {uid} : db[o].exists /\ db[o].email = ToLowerCase(email),
   dupUsername |-> \E o \in Ids \ {uid} :
                     db[o].exists /\ db[o].username = ToLowerCase(username),
   kept |-> tok \in hist.kept /\ tok.exp > now]

NoUpdate ==
  [email |-> "", username |-> "", isActive |-> "", isBlocked |-> "", emailVerified |-> "",
   role |-> ""]
NoWho == [userId |-> 0, email |-> "", role |-> "", username |-> ""]

Idle ==
  [op |-> "idle", pc |-> "", uid |-> 0, doc |-> NoDoc, dirty |-> {},
   tok |-> NoRefresh, pat |-> NoAccess, at |-> NoAccess, rt |-> NoRefresh,
   raw |-> 0, sent |-> FALSE, status |-> 0, upd |-> NoUpdate, snap |-> NoSnap,
   pre |-> {}, shifted |-> FALSE, peerOk |-> FALSE, peers |-> {}, error |-> "", pw |-> ""]

NoResp ==
  [op |-> "none", status |-> 0, uid |-> 0, tok |-> NoRefresh, pat |-> NoAccess,
   at |-> NoAccess, rt |-> NoRefresh, raw |-> 0, sent |-> FALSE, who |-> NoWho,
   t |-> 0, snap |-> NoSnap, shifted |-> FALSE, peerOk |-> FALSE, peers |-> {},
   error |-> "", pw |-> "", ret |-> FALSE, was |-> NoDoc]

\* HTTP_STATUS_CODES
OK == 200
CREATED == 201
BAD_REQUEST == 400
UNAUTHORIZED == 401
FORBIDDEN == 403
NOT_FOUND == 404
CONFLICT == 409
INTERNAL_SERVER_ERROR == 500

Succeeded(st) == st = OK \/ st = CREATED

\* the response of request r with status st: tokens only go out on success
RespOf(r, st) ==
  [op |-> r.op, status |-> st, uid |-> r.uid, tok |-> r.tok, pat |-> r.pat,
   at |-> IF Succeeded(st) THEN r.at ELSE NoAccess,
   rt |-> IF Succeeded(st) THEN r.rt ELSE NoRefresh,
   raw |-> r.raw, sent |-> r.sent, who |-> NoWho, t |-> 0, snap |-> r.snap,
   shifted |-> r.shifted, peerOk |-> r.peerOk, peers |-> r.peers,
   error |-> IF Succeeded(st) THEN "" ELSE r.error, pw |-> r.pw,
   ret |-> FALSE, was |-> NoDoc]

\* the history: revoked, the refresh tokens a successful changePassword found
\* stored; usedRaw, the raw tokens verifyEmail has accepted; superseded, the raw
\* verification tokens whose hash resendVerification has overwritten; lastLogout,
\* verified, the accounts a verifyEmail has verified; marked, the accounts an
\* updateUser has set emailVerified on; resetPw, the password the last
\* successful resetPassword of each account has set; the logout that succeeded last with no other request since (the first of
\* them when the same logout is repeated) and the list it left; blockOn, the
\* accounts blockUser has blocked and nothing has unblocked since; streak, the
\* refresh tokens of the successful logins of account streakOn that followed one
\* another from an empty token list with no other request and no expiry between
History(obs) ==
  [obs |-> obs, revoked |-> {}, usedRaw |-> {}, superseded |-> {}, blockOn |-> {},
   verified |-> {}, marked |-> {}, resetPw |-> [i \in Ids |-> ""], kept |-> {},
   streak |-> << >>, streakOn |-> 0,
   lastLogout |-> [uid |-> 0, tok |-> NoRefresh, list |-> << >>]]

InitWith(obs) ==
  /\ db = [i \in Ids |-> NoDoc]
  /\ nextId = 1
  /\ now = 0
  /\ rnd = 0
  /\ reqs = [s \in Slots |-> Idle]
  /\ resp = NoResp
  /\ held = NoAccess
  /\ hist = History(obs)

\* a request may start in slot s when slot s is free; par slots are in use
CanStart(s, par) ==
  s <= par /\ reqs[s] = Idle

NoStreak(h) ==
  [h EXCEPT !.streak = << >>, !.streakOn = 0,
            !.lastLogout = [uid |-> 0, tok |-> NoRefresh, list |-> << >>]]

\* a request that is answered before it touches the store again
Reject(r, st) ==
  /\ resp' = RespOf(r, st)
  /\ hist' = NoStreak(hist)
  /\ UNCHANGED << db, nextId, now, rnd, reqs, held >>

\* a request that goes on to its next database operation
Proceed(s, r) ==
  /\ reqs' = [reqs EXCEPT ![s] = r]
  /\ resp' = NoResp
  /\ hist' = IF r.op = "logout" THEN [hist EXCEPT !.streak = << >>, !.streakOn = 0]
             ELSE IF r.op # "login" \/ "streak" \notin hist.obs THEN NoStreak(hist)
             ELSE IF hist.streakOn = r.uid /\ Len(hist.streak) <= MaxRefreshTokens
                  THEN hist
             ELSE IF db[r.uid].refreshTokens = << >>
                  THEN [hist EXCEPT !.streak = << >>, !.streakOn = r.uid]
                  ELSE NoStreak(hist)
  /\ UNCHANGED << db, nextId, now, rnd, held >>

\* The clock advances by one second, up to max.
Tick(max) ==
  /\ now < max
  /\ now' = now + 1
  /\ hist' = IF \E i \in Ids : \E k \in 1..Len(db[i].refreshTokens) :
                  db[i].refreshTokens[k].expiresAt <= now + 1
             THEN [hist EXCEPT !.streak = << >>, !.streakOn = 0]
             ELSE hist
  /\ UNCHANGED << db, nextId, rnd, reqs, resp, held >>

\* AuthService.generateTokens up to its save: sign both tokens and add the
\* refresh token to the in-memory document
generateTokens(r, t) ==
  LET rt == generateRefreshToken(r.uid, t)
  IN [r EXCEPT !.at = generateAccessToken(r.uid, r.doc, t),
               !.rt = rt,
               !.shifted = Len(r.doc.refreshTokens) >= MaxRefreshTokens,
               !.doc = addRefreshToken(r.doc, rt, t + RefreshTtl),
               !.dirty = r.dirty \cup {"refreshTokens"}]

\* the in-memory document and its modified paths once the pre-save hook has run
Hooked(r) ==
  LET d == preSave(r.doc, now)
  IN [r EXCEPT !.doc = d,
               !.dirty = IF d.refreshTokens # r.doc.refreshTokens
                         THEN r.dirty \cup {"refreshTokens"} ELSE r.dirty]

\* user.save() of the loaded document of request r fails when the document has
\* been deleted meanwhile
SaveFails(r) == Hooked(r).dirty # {} /\ ~db[r.uid].exists

\* the store after user.save() of request r
Saved(r) ==
  LET h == Hooked(r)
  IN IF h.dirty = {} THEN db
     ELSE [db EXCEPT ![r.uid] = persist(db[r.uid], h.doc, h.dirty)]

\* the request after its save: nothing is modified any more
AfterSave(r) == [Hooked(r) EXCEPT !.dirty = {}]

\* ---------------------------------------------------- AuthService.register
\* The existence check of register; email and username are lower-cased.  findOne
\* returns one of the documents that match the $or, in no specified order.
RegisterStart(s, par, cap, username, email, password) ==
  /\ CanStart(s, par)
  /\ rnd < MaxRand
  /\ nextId + Cardinality({o \in Slots : reqs[o].op = "register"}) <= cap
  /\ LET r0 == [Idle EXCEPT !.op = "register",
                            !.snap = SnapOf(0, NoRefresh, 0, email, username)]
         found == {o \in Ids : db[o].exists /\ (db[o].email = ToLowerCase(email)
                                    \/ db[o].username = ToLowerCase(username))}
         taken == found # {}
         doc == [NoDoc EXCEPT !.exists = TRUE,
                              !.email = ToLowerCase(email),
                              !.username = ToLowerCase(username),
                              !.passwordHash = hashPassword(password),
                              !.role = "user",
                              !.emailVerified = FALSE,
                              !.isActive = TRUE,
                              !.emailVerificationToken = hashToken(rnd + 1),
                              !.emailVerificationExpiry = now + VerifyTtl]
     IN IF taken
        THEN \E existingUser \in found :
               Reject([r0 EXCEPT !.error =
                         IF db[existingUser].email = ToLowerCase(email)
                         THEN "User with this email already exists"
                         ELSE "User with this username already exists"], CONFLICT)
        ELSE /\ reqs' = [reqs EXCEPT ![s] = [r0 EXCEPT !.pc = "insert", !.doc = doc,
                                                       !.raw = rnd + 1]]
             /\ rnd' = rnd + 1
             /\ resp' = NoResp
             /\ hist' = NoStreak(hist)
             /\ UNCHANGED << db, nextId, now, held >>

\* the mutant of RegisterInsert: register raises an error when the verification
\* email cannot be sent
RegisterInsertMailRequired(s, notifier) ==
  /\ reqs[s].op = "register" /\ reqs[s].pc = "insert"
  /\ LET r == reqs[s]
     IN IF duplicateKey(db, nextId, r.doc.email, r.doc.username)
        THEN /\ resp' = RespOf(r, CONFLICT)
             /\ reqs' = [reqs EXCEPT ![s] = Idle]
             /\ UNCHANGED << db, nextId, now, rnd, held, hist >>
        ELSE \E sent \in notifier :
             /\ db' = [db EXCEPT ![nextId] = r.doc]
             /\ nextId' = nextId + 1
             /\ IF sent
                THEN /\ reqs' = [reqs EXCEPT ![s] =
                                   generateTokens([r EXCEPT !.uid = nextId, !.pc = "save",
                                                            !.sent = sent,
                                                            !.status = CREATED], now)]
                     /\ UNCHANGED resp
                ELSE /\ reqs' = [reqs EXCEPT ![s] = Idle]
                     /\ resp' = RespOf([r EXCEPT !.uid = nextId], INTERNAL_SERVER_ERROR)
             /\ UNCHANGED << now, rnd, held, hist >>

\* The insert of register (the unique indexes decide), the verification email
\* (notifier: whether sending it can succeed, fail, or both), and generateTokens
\* up to its save.
RegisterInsert(s, notifier) ==
  /\ reqs[s].op = "register" /\ reqs[s].pc = "insert"
  /\ LET r == reqs[s]
     IN IF duplicateKey(db, nextId, r.doc.email, r.doc.username)
        THEN /\ resp' = RespOf(r, CONFLICT)
             /\ reqs' = [reqs EXCEPT ![s] = Idle]
             /\ UNCHANGED << db, nextId, now, rnd, held, hist >>
        ELSE \E sent \in notifier :
             /\ db' = [db EXCEPT ![nextId] = r.doc]
             /\ nextId' = nextId + 1
             /\ reqs' = [reqs EXCEPT ![s] =
                           generateTokens([r EXCEPT !.uid = nextId, !.pc = "save",
                                                    !.sent = sent, !.status = CREATED],
                                          now)]
             /\ UNCHANGED << now, rnd, resp, held, hist >>

\* ------------------------------------------------------- AuthService.login
\* the mutant of LoginStart: the password is compared before the account state
LoginStartPasswordFirst(s, par, identifier, password) ==
  /\ CanStart(s, par)
  /\ LET found == {o \in Ids : db[o].exists /\ (db[o].email = ToLowerCase(identifier)
                                     \/ db[o].username = ToLowerCase(identifier))}
         r0 == [Idle EXCEPT !.op = "login", !.pw = password]
     IN IF found = {}
        THEN Reject([r0 EXCEPT !.error = "Invalid credentials"], UNAUTHORIZED)
        ELSE LET uid == CHOOSE o \in found : \A q \in found : o <= q
                 user == db[uid]
                 r1 == [r0 EXCEPT !.uid = uid,
                                  !.snap = [SnapOf(uid, NoRefresh, 0, "", "") EXCEPT
                                              !.valid = comparePassword(password,
                                                                        user.passwordHash)]]
             IN IF ~comparePassword(password, user.passwordHash)
                THEN Reject([r1 EXCEPT !.error = "Invalid credentials"], UNAUTHORIZED)
                ELSE IF ~user.emailVerified
                THEN Reject([r1 EXCEPT !.error = "Email not verified"], FORBIDDEN)
                ELSE IF ~user.isActive
                THEN Reject([r1 EXCEPT !.error = "Account is deactivated"], FORBIDDEN)
                ELSE IF user.isBlocked
                THEN Reject([r1 EXCEPT !.error = "Account is blocked"], FORBIDDEN)
                ELSE IF ~comparePassword(password, user.passwordHash)
                     THEN Reject([r1 EXCEPT !.error = "Invalid credentials"], UNAUTHORIZED)
                ELSE Proceed(s, [r1 EXCEPT !.pc = "login_save",
                                           !.doc = [user EXCEPT !.lastLogin = now],
                                           !.dirty = {"lastLogin"}])

\* login up to the save of lastLogin.
LoginStart(s, par, identifier, password) ==
  /\ CanStart(s, par)
  /\ LET found == {o \in Ids : db[o].exists /\ (db[o].email = ToLowerCase(identifier)
                                     \/ db[o].username = ToLowerCase(identifier))}
         r0 == [Idle EXCEPT !.op = "login", !.pw = password]
     IN IF found = {}
        THEN Reject([r0 EXCEPT !.error = "Invalid credentials"], UNAUTHORIZED)
        ELSE LET uid == CHOOSE o \in found : \A q \in found : o <= q
                 user == db[uid]
                 r1 == [r0 EXCEPT !.uid = uid,
                                  !.snap = [SnapOf(uid, NoRefresh, 0, "", "") EXCEPT
                                              !.valid = comparePassword(password,
                                                                        user.passwordHash)]]
             IN IF ~user.emailVerified
                THEN Reject([r1 EXCEPT !.error = "Email not verified"], FORBIDDEN)
                ELSE IF ~user.isActive
                THEN Reject([r1 EXCEPT !.error = "Account is deactivated"], FORBIDDEN)
                ELSE IF user.isBlocked
                THEN Reject([r1 EXCEPT !.error = "Account is blocked"], FORBIDDEN)
                ELSE IF ~comparePassword(password, user.passwordHash)
                     THEN Reject([r1 EXCEPT !.error = "Invalid credentials"], UNAUTHORIZED)
                ELSE Proceed(s, [r1 EXCEPT !.pc = "login_save",
                                           !.doc = [user EXCEPT !.lastLogin = now],
                                           !.dirty = {"lastLogin"}])

\* The save of lastLogin, then generateTokens up to its save.
LoginSave(s) ==
  /\ reqs[s].op = "login" /\ reqs[s].pc = "login_save"
  /\ LET r == reqs[s]
     IN IF SaveFails(r)
        THEN /\ resp' = RespOf(r, INTERNAL_SERVER_ERROR)
             /\ reqs' = [reqs EXCEPT ![s] = Idle]
             /\ hist' = NoStreak(hist)
             /\ UNCHANGED << db, nextId, now, rnd, held >>
        ELSE /\ db' = Saved(r)
             /\ reqs' = [reqs EXCEPT ![s] =
                           generateTokens([AfterSave(r) EXCEPT !.pc = "save",
                                                               !.status = OK], now)]
             /\ UNCHANGED << nextId, now, rnd, resp, held, hist >>

\* the mutant of RefreshStart: an unverified account cannot refresh
RefreshStartVerifiedOnly(s, par, tok) ==
  /\ CanStart(s, par)
  /\ LET r0 == [Idle EXCEPT !.op = "refresh", !.tok = tok, !.uid = tok.sub,
                            !.snap = SnapOf(tok.sub, tok, 0, "", "")]
     IN IF ~verifyRefreshToken(tok, now) THEN Reject(r0, UNAUTHORIZED)
        ELSE IF ~db[tok.sub].exists THEN Reject(r0, UNAUTHORIZED)
        ELSE IF ~isValidRefreshToken(db[tok.sub], tok, now) THEN Reject(r0, UNAUTHORIZED)
        ELSE IF ~db[tok.sub].isActive THEN Reject(r0, FORBIDDEN)
        ELSE IF ~db[tok.sub].emailVerified THEN Reject(r0, FORBIDDEN)
        ELSE Proceed(s, generateTokens(
               [r0 EXCEPT !.pc = "refresh_save", !.doc = db[tok.sub],
                          !.pre = {db[tok.sub].refreshTokens[k].token :
                                     k \in 1..Len(db[tok.sub].refreshTokens)}], now))

\* ------------------------------------------------ AuthService.refreshToken
\* refreshToken up to the save inside generateTokens.
RefreshStart(s, par, tok) ==
  /\ CanStart(s, par)
  /\ LET r0 == [Idle EXCEPT !.op = "refresh", !.tok = tok, !.uid = tok.sub,
                            !.snap = SnapOf(tok.sub, tok, 0, "", "")]
     IN IF ~verifyRefreshToken(tok, now) THEN Reject(r0, UNAUTHORIZED)
        ELSE IF ~db[tok.sub].exists THEN Reject(r0, UNAUTHORIZED)
        ELSE IF ~isValidRefreshToken(db[tok.sub], tok, now) THEN Reject(r0, UNAUTHORIZED)
        ELSE IF ~db[tok.sub].isActive THEN Reject(r0, FORBIDDEN)
        ELSE Proceed(s, generateTokens(
               [r0 EXCEPT !.pc = "refresh_save", !.doc = db[tok.sub],
                          !.pre = {db[tok.sub].refreshTokens[k].token :
                                     k \in 1..Len(db[tok.sub].refreshTokens)}], now))

\* The save of generateTokens, then removeRefreshToken of the presented token
\* up to the second save.
RefreshSave(s) ==
  /\ reqs[s].op = "refresh" /\ reqs[s].pc = "refresh_save"
  /\ LET r == reqs[s]
     IN IF SaveFails(r)
        THEN /\ resp' = RespOf(r, INTERNAL_SERVER_ERROR)
             /\ reqs' = [reqs EXCEPT ![s] = Idle]
             /\ UNCHANGED << db, nextId, now, rnd, held, hist >>
        ELSE LET a == AfterSave(r)
                 d == removeRefreshToken(a.doc, r.tok)
             IN /\ db' = Saved(r)
                /\ reqs' = [reqs EXCEPT ![s] =
                              [a EXCEPT !.pc = "save", !.status = OK, !.doc = d,
                                        !.dirty = IF d.refreshTokens # a.doc.refreshTokens
                                                  THEN {"refreshTokens"} ELSE {}]]
                /\ UNCHANGED << nextId, now, rnd, resp, held, hist >>

\* ------------------------------------------------ AuthMiddleware.authenticate
\* the mutant of authenticate: the blocked check is missing
authenticateNoBlock(pat, t) ==
  IF pat.key = "none" THEN UNAUTHORIZED
  ELSE IF ~verifyAccessToken(pat, t) THEN UNAUTHORIZED
  ELSE IF ~db[pat.sub].exists THEN UNAUTHORIZED
  ELSE IF ~db[pat.sub].isActive THEN FORBIDDEN
  ELSE OK

\* the status the guard answers with, OK where it calls next()
authenticate(pat, t) ==
  IF pat.key = "none" THEN UNAUTHORIZED
  ELSE IF ~verifyAccessToken(pat, t) THEN UNAUTHORIZED
  ELSE IF ~db[pat.sub].exists THEN UNAUTHORIZED
  ELSE IF ~db[pat.sub].isActive THEN FORBIDDEN
  ELSE IF db[pat.sub].isBlocked THEN FORBIDDEN
  ELSE OK

\* req.user as the guard attaches it: the id from the token, the rest from
\* the stored account
attached(pat) ==
  [userId |-> pat.sub, email |-> db[pat.sub].email, role |-> db[pat.sub].role,
   username |-> db[pat.sub].username]

\* A protected request that only passes the guard (GET /auth/verify and the like).
Guard(s, par, pat) ==
  /\ CanStart(s, par)
  /\ LET st == authenticate(pat, now)
         r == [Idle EXCEPT !.op = "guard", !.pat = pat, !.uid = pat.sub]
     IN /\ resp' = [RespOf(r, st) EXCEPT !.who = IF st = OK THEN attached(pat) ELSE NoWho,
                                         !.t = now]
        /\ hist' = NoStreak(hist)
        /\ UNCHANGED << db, nextId, now, rnd, reqs, held >>

\* ------------------------------------------------ AuthMiddleware.optionalAuth
\* the mutant of optionalAuth: the blocked check is missing
optionalAuthNoBlock(pat, t) ==
  IF pat.key = "none" THEN NoWho
  ELSE IF ~verifyAccessToken(pat, t) THEN NoWho
  ELSE IF db[pat.sub].exists /\ db[pat.sub].isActive THEN attached(pat)
  ELSE NoWho

\* req.user as the optional guard leaves it; it calls next() in every case
optionalAuth(pat, t) ==
  IF pat.key = "none" THEN NoWho
  ELSE IF ~verifyAccessToken(pat, t) THEN NoWho
  ELSE IF db[pat.sub].exists /\ db[pat.sub].isActive /\ ~db[pat.sub].isBlocked
       THEN attached(pat)
  ELSE NoWho

\* A request that only passes the optional guard.
OptionalGuard(s, par, pat) ==
  /\ CanStart(s, par)
  /\ LET r == [Idle EXCEPT !.op = "optional", !.pat = pat, !.uid = pat.sub,
                           !.snap = SnapOf(pat.sub, NoRefresh, 0, "", "")]
     IN /\ resp' = [RespOf(r, OK) EXCEPT !.who = optionalAuth(pat, now), !.t = now]
        /\ hist' = NoStreak(hist)
        /\ UNCHANGED << db, nextId, now, rnd, reqs, held >>

\* ------------------------------------------------------ AuthService.logout
\* the mutant of LogoutStart: logout drops every session of the account
LogoutStartEverySession(s, par, pat, tok) ==
  /\ CanStart(s, par)
  /\ LET st == authenticate(pat, now)
         r0 == [Idle EXCEPT !.op = "logout", !.pat = pat, !.tok = tok, !.uid = pat.sub]
     IN IF st # OK THEN Reject(r0, st)
        ELSE LET d == [db[pat.sub] EXCEPT !.refreshTokens = << >>]
             IN Proceed(s, [r0 EXCEPT !.pc = "save", !.status = OK, !.doc = d,
                                      !.snap = SnapOf(pat.sub, tok, 0, "", ""),
                                      !.dirty = IF d.refreshTokens # db[pat.sub].refreshTokens
                                                THEN {"refreshTokens"} ELSE {}])

\* POST /auth/logout: the guard, then logout up to its save.
LogoutStart(s, par, pat, tok) ==
  /\ CanStart(s, par)
  /\ LET st == authenticate(pat, now)
         r0 == [Idle EXCEPT !.op = "logout", !.pat = pat, !.tok = tok, !.uid = pat.sub]
     IN IF st # OK THEN Reject(r0, st)
        ELSE LET d == removeRefreshToken(db[pat.sub], tok)
             IN Proceed(s, [r0 EXCEPT !.pc = "save", !.status = OK, !.doc = d,
                                      !.snap = SnapOf(pat.sub, tok, 0, "", ""),
                                      !.dirty = IF d.refreshTokens # db[pat.sub].refreshTokens
                                                THEN {"refreshTokens"} ELSE {}])

\* ---------------------------------------------- AuthService.changePassword
\* PUT /auth/change-password: the guard, then changePassword up to its save.
ChangePasswordStart(s, par, pat, currentPassword, newPassword) ==
  /\ CanStart(s, par)
  /\ LET st == authenticate(pat, now)
         r0 == [Idle EXCEPT !.op = "changePassword", !.pat = pat, !.uid = pat.sub]
     IN IF st # OK THEN Reject(r0, st)
        ELSE LET user == db[pat.sub]
             IN IF ~comparePassword(currentPassword, user.passwordHash)
                THEN Reject(r0, UNAUTHORIZED)
                ELSE Proceed(s, [r0 EXCEPT
                       !.pc = "save", !.status = OK,
                       !.pre = {user.refreshTokens[k].token :
                                  k \in 1..Len(user.refreshTokens)},
                       !.doc = [user EXCEPT !.passwordHash = hashPassword(newPassword),
                                            !.refreshTokens = << >>],
                       !.dirty = {"passwordHash"} \cup
                                 (IF user.refreshTokens # << >>
                                  THEN {"refreshTokens"} ELSE {})])

\* ------------------------------------------------- AuthService.verifyEmail
\* the mutant of verifyEmail: the stored verification token is not cleared
VerifyEmailStartKeepToken(s, par, raw) ==
  /\ CanStart(s, par)
  /\ LET found == {o \in Ids : /\ db[o].exists
                               /\ db[o].emailVerificationToken = hashToken(raw)
                               /\ db[o].emailVerificationExpiry > now}
         r0 == [Idle EXCEPT !.op = "verifyEmail", !.raw = raw,
                            !.snap = SnapOf(0, NoRefresh, raw, "", "")]
     IN IF found = {}
        THEN Reject(r0, NOT_FOUND)
        ELSE LET uid == CHOOSE o \in found : \A q \in found : o <= q
             IN Proceed(s, [r0 EXCEPT
                  !.uid = uid, !.pc = "save", !.status = OK,
                  !.doc = [db[uid] EXCEPT !.emailVerified = TRUE],
                  !.dirty = {"emailVerified"}])

\* verifyEmail up to its save.
VerifyEmailStart(s, par, raw) ==
  /\ CanStart(s, par)
  /\ LET found == {o \in Ids : /\ db[o].exists
                               /\ db[o].emailVerificationToken = hashToken(raw)
                               /\ db[o].emailVerificationExpiry > now}
         r0 == [Idle EXCEPT !.op = "verifyEmail", !.raw = raw,
                            !.snap = SnapOf(0, NoRefresh, raw, "", "")]
     IN IF found = {}
        THEN Reject(r0, NOT_FOUND)
        ELSE LET uid == CHOOSE o \in found : \A q \in found : o <= q
             IN Proceed(s, [r0 EXCEPT
                  !.uid = uid, !.pc = "save", !.status = OK,
                  !.doc = [db[uid] EXCEPT !.emailVerified = TRUE,
                                          !.emailVerificationExpiry = -1,
                                          !.emailVerificationToken = NoHash],
                  !.dirty = {"emailVerified", "emailVerificationExpiry",
                             "emailVerificationToken"}])

\* ------------------------------------------ AuthService.resendVerification
\* the mutant of ResendStart: the new token is sent but the stored hash and
\* expiry are left as they were
ResendStartKeepHash(s, par, email, notifier) ==
  /\ CanStart(s, par)
  /\ LET found == {o \in Ids : db[o].exists /\ db[o].email = ToLowerCase(email)}
         r0 == [Idle EXCEPT !.op = "resend"]
     IN IF found = {}
        THEN Reject(r0, NOT_FOUND)
        ELSE LET uid == CHOOSE o \in found : \A q \in found : o <= q
                 r1 == [r0 EXCEPT !.uid = uid]
             IN IF db[uid].emailVerified
                THEN Reject(r1, BAD_REQUEST)
                ELSE \E sent \in notifier :
                     /\ rnd < MaxRand
                     /\ rnd' = rnd + 1
                     /\ reqs' = [reqs EXCEPT ![s] = [r1 EXCEPT
                          !.pc = "save", !.raw = rnd + 1, !.sent = sent,
                          !.status = IF sent THEN OK ELSE INTERNAL_SERVER_ERROR,
                          !.doc = db[uid], !.dirty = {}]]
                     /\ resp' = NoResp
                     /\ hist' = NoStreak(hist)
                     /\ UNCHANGED << db, nextId, now, held >>

\* resendVerification up to its save; the email goes out after the save, and
\* the call raises an error when it cannot be sent (notifier: the outcomes).
ResendStart(s, par, email, notifier) ==
  /\ CanStart(s, par)
  /\ LET found == {o \in Ids : db[o].exists /\ db[o].email = ToLowerCase(email)}
         r0 == [Idle EXCEPT !.op = "resend"]
     IN IF found = {}
        THEN Reject(r0, NOT_FOUND)
        ELSE LET uid == CHOOSE o \in found : \A q \in found : o <= q
                 r1 == [r0 EXCEPT !.uid = uid]
             IN IF db[uid].emailVerified
                THEN Reject(r1, BAD_REQUEST)
                ELSE \E sent \in notifier :
                     /\ rnd < MaxRand
                     /\ rnd' = rnd + 1
                     /\ reqs' = [reqs EXCEPT ![s] = [r1 EXCEPT
                          !.pc = "save", !.raw = rnd + 1, !.sent = sent,
                          !.status = IF sent THEN OK ELSE INTERNAL_SERVER_ERROR,
                          !.doc = [db[uid] EXCEPT
                                     !.emailVerificationToken = hashToken(rnd + 1),
                                     !.emailVerificationExpiry = now + VerifyTtl],
                          !.dirty = {"emailVerificationToken",
                                     "emailVerificationExpiry"}]]
                     /\ resp' = NoResp
                     /\ hist' = NoStreak(hist)
                     /\ UNCHANGED << db, nextId, now, held >>

\* ---------------------------------------------- AuthService.forgotPassword
\* the mutant of ForgotStart: a reset token already stored is kept
ForgotStartKeepSlot(s, par, email, notifier) ==
  /\ CanStart(s, par)
  /\ LET found == {o \in Ids : db[o].exists /\ db[o].email = ToLowerCase(email)}
         r0 == [Idle EXCEPT !.op = "forgot"]
     IN IF found = {}
        THEN Reject(r0, NOT_FOUND)
        ELSE LET uid == CHOOSE o \in found : \A q \in found : o <= q
             IN \E sent \in notifier :
                /\ rnd < MaxRand
                /\ rnd' = rnd + 1
                /\ reqs' = [reqs EXCEPT ![s] = [r0 EXCEPT
                     !.uid = uid, !.pc = "save", !.raw = rnd + 1, !.sent = sent,
                     !.status = IF sent THEN OK ELSE INTERNAL_SERVER_ERROR,
                     !.doc = IF db[uid].resetToken # NoHash THEN db[uid]
                             ELSE [db[uid] EXCEPT !.resetToken = hashToken(rnd + 1),
                                                  !.resetTokenExpiry = now + ResetTtl],
                     !.dirty = IF db[uid].resetToken # NoHash THEN {}
                               ELSE {"resetToken", "resetTokenExpiry"}]]
                /\ resp' = NoResp
                /\ hist' = NoStreak(hist)
                /\ UNCHANGED << db, nextId, now, held >>

\* forgotPassword up to its save; the email goes out after the save.
ForgotStart(s, par, email, notifier) ==
  /\ CanStart(s, par)
  /\ LET found == {o \in Ids : db[o].exists /\ db[o].email = ToLowerCase(email)}
         r0 == [Idle EXCEPT !.op = "forgot"]
     IN IF found = {}
        THEN Reject(r0, NOT_FOUND)
        ELSE LET uid == CHOOSE o \in found : \A q \in found : o <= q
             IN \E sent \in notifier :
                /\ rnd < MaxRand
                /\ rnd' = rnd + 1
                /\ reqs' = [reqs EXCEPT ![s] = [r0 EXCEPT
                     !.uid = uid, !.pc = "save", !.raw = rnd + 1, !.sent = sent,
                     !.status = IF sent THEN OK ELSE INTERNAL_SERVER_ERROR,
                     !.doc = [db[uid] EXCEPT !.resetToken = hashToken(rnd + 1),
                                             !.resetTokenExpiry = now + ResetTtl],
                     !.dirty = {"resetToken", "resetTokenExpiry"}]]
                /\ resp' = NoResp
                /\ hist' = NoStreak(hist)
                /\ UNCHANGED << db, nextId, now, held >>

\* -------------------------------------------- AuthService.verifyResetToken
\* the accounts whose stored reset hash is that of raw and has not expired
resetLookup(raw) ==
  {o \in Ids : /\ db[o].exists
               /\ db[o].resetToken = hashToken(raw)
               /\ db[o].resetTokenExpiry > now}

\* verifyResetToken: one read.
VerifyResetToken(s, par, raw) ==
  /\ CanStart(s, par)
  /\ LET r0 == [Idle EXCEPT !.op = "verifyResetToken", !.raw = raw,
                            !.snap = SnapOf(0, NoRefresh, raw, "", "")]
     IN IF resetLookup(raw) = {}
        THEN Reject(r0, NOT_FOUND)
        ELSE Reject([r0 EXCEPT !.uid = CHOOSE o \in resetLookup(raw) :
                                         \A q \in resetLookup(raw) : o <= q], OK)

\* ----------------------------------------------- AuthService.resetPassword
\* the mutant of resetPassword: the expiry of the reset token is not looked at
ResetPasswordStartNoExpiry(s, par, raw, password) ==
  /\ CanStart(s, par)
  /\ LET found == {o \in Ids : db[o].exists /\ db[o].resetToken = hashToken(raw)}
         r0 == [Idle EXCEPT !.op = "resetPassword", !.raw = raw,
                            !.snap = SnapOf(0, NoRefresh, raw, "", "")]
     IN IF found = {}
        THEN Reject(r0, NOT_FOUND)
        ELSE LET uid == CHOOSE o \in found : \A q \in found : o <= q
             IN Proceed(s, [r0 EXCEPT
                  !.uid = uid, !.pc = "save", !.status = OK,
                  !.doc = [db[uid] EXCEPT !.passwordHash = hashPassword(password),
                                          !.resetToken = NoHash,
                                          !.resetTokenExpiry = -1],
                  !.dirty = {"passwordHash", "resetToken", "resetTokenExpiry"}])

\* resetPassword up to its save.
ResetPasswordStart(s, par, raw, password) ==
  /\ CanStart(s, par)
  /\ LET found == resetLookup(raw)
         r0 == [Idle EXCEPT !.op = "resetPassword", !.raw = raw, !.pw = password,
                            !.snap = SnapOf(0, NoRefresh, raw, "", "")]
     IN IF found = {}
        THEN Reject(r0, NOT_FOUND)
        ELSE LET uid == CHOOSE o \in found : \A q \in found : o <= q
             IN Proceed(s, [r0 EXCEPT
                  !.uid = uid, !.pc = "save", !.status = OK,
                  !.doc = [db[uid] EXCEPT !.passwordHash = hashPassword(password),
                                          !.resetToken = NoHash,
                                          !.resetTokenExpiry = -1],
                  !.dirty = {"passwordHash", "resetToken", "resetTokenExpiry"}])

\* ------------------------------------------------------------- UserService
\* deactivateUser up to its save.
DeactivateStart(s, par, id) ==
  /\ CanStart(s, par)
  /\ LET r0 == [Idle EXCEPT !.op = "deactivate", !.uid = id]
     IN IF ~db[id].exists THEN Reject(r0, NOT_FOUND)
        ELSE IF ~db[id].isActive THEN Reject(r0, BAD_REQUEST)
        ELSE Proceed(s, [r0 EXCEPT
               !.pc = "save", !.status = OK,
               !.doc = [db[id] EXCEPT !.isActive = FALSE, !.refreshTokens = << >>],
               !.dirty = {"isActive"} \cup (IF db[id].refreshTokens # << >>
                                            THEN {"refreshTokens"} ELSE {})])

\* activateUser up to its save.
ActivateStart(s, par, id) ==
  /\ CanStart(s, par)
  /\ LET r0 == [Idle EXCEPT !.op = "activate", !.uid = id]
     IN IF ~db[id].exists THEN Reject(r0, NOT_FOUND)
        ELSE IF db[id].isActive THEN Reject(r0, BAD_REQUEST)
        ELSE Proceed(s, [r0 EXCEPT !.pc = "save", !.status = OK,
                                   !.doc = [db[id] EXCEPT !.isActive = TRUE],
                                   !.dirty = {"isActive"}])

\* blockUser up to its save.
BlockStart(s, par, id) ==
  /\ CanStart(s, par)
  /\ LET r0 == [Idle EXCEPT !.op = "block", !.uid = id]
     IN IF ~db[id].exists THEN Reject(r0, NOT_FOUND)
        ELSE IF db[id].isBlocked THEN Reject(r0, BAD_REQUEST)
        ELSE Proceed(s, [r0 EXCEPT
               !.pc = "save", !.status = OK,
               !.doc = [db[id] EXCEPT !.isBlocked = TRUE, !.refreshTokens = << >>],
               !.dirty = {"isBlocked"} \cup (IF db[id].refreshTokens # << >>
                                             THEN {"refreshTokens"} ELSE {})])

\* unblockUser up to its save.
UnblockStart(s, par, id) ==
  /\ CanStart(s, par)
  /\ LET r0 == [Idle EXCEPT !.op = "unblock", !.uid = id]
     IN IF ~db[id].exists THEN Reject(r0, NOT_FOUND)
        ELSE IF ~db[id].isBlocked THEN Reject(r0, BAD_REQUEST)
        ELSE Proceed(s, [r0 EXCEPT !.pc = "save", !.status = OK,
                                   !.doc = [db[id] EXCEPT !.isBlocked = FALSE],
                                   !.dirty = {"isBlocked"}])

\* updateUser up to findByIdAndUpdate: the lookup and the duplicate check.
UpdateStart(s, par, id, upd) ==
  /\ CanStart(s, par)
  /\ LET r0 == [Idle EXCEPT !.op = "update", !.uid = id, !.upd = upd,
                            !.snap = SnapOf(id, NoRefresh, 0, upd.email, upd.username)]
         existing == {o \in Ids : /\ o # id
                                  /\ db[o].exists
                                  /\ \/ upd.email # "" /\ db[o].email = ToLowerCase(upd.email)
                                     \/ /\ upd.username # ""
                                        /\ db[o].username = ToLowerCase(upd.username)}
     IN IF ~db[id].exists THEN Reject(r0, NOT_FOUND)
        ELSE IF (upd.email # "" \/ upd.username # "") /\ existing # {}
             THEN \E existingUser \in existing :
                    IF upd.email # "" /\ db[existingUser].email = ToLowerCase(upd.email)
                    THEN Reject([r0 EXCEPT !.error = "Email already exists"], CONFLICT)
                    ELSE Reject([r0 EXCEPT !.error = "Username already exists"], CONFLICT)
        ELSE Proceed(s, [r0 EXCEPT !.pc = "update", !.status = OK])

\* the document findByIdAndUpdate leaves: the given fields, email and username
\* lower-cased
updated(doc, upd) ==
  [doc EXCEPT !.email = IF upd.email # "" THEN ToLowerCase(upd.email) ELSE @,
              !.username = IF upd.username # "" THEN ToLowerCase(upd.username) ELSE @,
              !.isActive = IF upd.isActive # "" THEN upd.isActive = "true" ELSE @,
              !.isBlocked = IF upd.isBlocked # "" THEN upd.isBlocked = "true" ELSE @,
              !.emailVerified = IF upd.emailVerified # "" THEN upd.emailVerified = "true"
                                ELSE @,
              !.role = IF upd.role # "" THEN upd.role ELSE @]

\* findByIdAndUpdate of updateUser, one atomic operation of the store.
UpdateApply(s) ==
  /\ reqs[s].op = "update" /\ reqs[s].pc = "update"
  /\ LET r == reqs[s]
         d == updated(db[r.uid], r.upd)
     IN /\ reqs' = [reqs EXCEPT ![s] = Idle]
        /\ IF ~db[r.uid].exists
           THEN /\ resp' = RespOf(r, INTERNAL_SERVER_ERROR)
                /\ UNCHANGED << db, hist >>
           ELSE IF duplicateKey(db, r.uid, d.email, d.username)
           THEN /\ resp' = RespOf(r, CONFLICT)
                /\ UNCHANGED << db, hist >>
           ELSE /\ resp' = RespOf(r, OK)
                /\ db' = [db EXCEPT ![r.uid] = d]
                /\ hist' = IF r.upd.isBlocked = "false"
                           THEN [hist EXCEPT !.blockOn = @ \ {r.uid}]
                           ELSE IF r.upd.emailVerified = "true" /\ "verified" \in hist.obs
                           THEN [hist EXCEPT !.marked = @ \cup {r.uid}]
                           ELSE hist
        /\ UNCHANGED << nextId, now, rnd, held >>

\* createUser up to its save: the existence check, as in register.
CreateStart(s, par, cap, username, email, password) ==
  /\ CanStart(s, par)
  /\ LET r0 == [Idle EXCEPT !.op = "create",
                            !.snap = SnapOf(0, NoRefresh, 0, email, username)]
         found == {o \in Ids : db[o].exists /\ (db[o].email = ToLowerCase(email)
                                    \/ db[o].username = ToLowerCase(username))}
         doc == [NoDoc EXCEPT !.exists = TRUE,
                              !.email = ToLowerCase(email),
                              !.username = ToLowerCase(username),
                              !.passwordHash = hashPassword(password),
                              !.role = "user",
                              !.emailVerified = FALSE,
                              !.isActive = TRUE]
     IN IF found # {}
        THEN \E existingUser \in found :
               Reject([r0 EXCEPT !.error =
                         IF db[existingUser].email = ToLowerCase(email)
                         THEN "User with this email already exists"
                         ELSE "User with this username already exists"], CONFLICT)
        ELSE /\ nextId + Cardinality({o \in Slots : reqs[o].op \in {"register", "create"}})
                  <= cap
             /\ Proceed(s, [r0 EXCEPT !.pc = "create", !.doc = doc, !.status = CREATED])

\* The insert of createUser (the unique indexes decide).
CreateInsert(s) ==
  /\ reqs[s].op = "create" /\ reqs[s].pc = "create"
  /\ LET r == reqs[s]
     IN /\ reqs' = [reqs EXCEPT ![s] = Idle]
        /\ IF duplicateKey(db, nextId, r.doc.email, r.doc.username)
           THEN /\ resp' = RespOf(r, CONFLICT)
                /\ UNCHANGED << db, nextId >>
           ELSE /\ resp' = RespOf([r EXCEPT !.uid = nextId], CREATED)
                /\ db' = [db EXCEPT ![nextId] = r.doc]
                /\ nextId' = nextId + 1
        /\ UNCHANGED << now, rnd, held, hist >>

\* deleteUser up to findByIdAndDelete.
DeleteStart(s, par, id) ==
  /\ CanStart(s, par)
  /\ LET r0 == [Idle EXCEPT !.op = "delete", !.uid = id]
     IN IF ~db[id].exists THEN Reject(r0, NOT_FOUND)
        ELSE Proceed(s, [r0 EXCEPT !.pc = "delete", !.status = OK])

\* findByIdAndDelete of deleteUser.
DeleteApply(s) ==
  /\ reqs[s].op = "delete" /\ reqs[s].pc = "delete"
  /\ db' = [db EXCEPT ![reqs[s].uid] = NoDoc]
  /\ resp' = RespOf(reqs[s], OK)
  /\ reqs' = [reqs EXCEPT ![s] = Idle]
  /\ hist' = [hist EXCEPT !.blockOn = @ \ {reqs[s].uid}]
  /\ UNCHANGED << nextId, now, rnd, held >>

\* ------------------------------------------------------- the last save
\* the history once request r has succeeded
Record(h, r) ==
  CASE r.op = "login" /\ "streak" \in h.obs ->
         [h EXCEPT !.streak = IF h.streakOn = r.uid THEN Append(@, r.rt) ELSE @]
    [] r.op = "changePassword" /\ "revoked" \in h.obs ->
         [h EXCEPT !.revoked = @ \cup r.pre]
    [] r.op = "verifyEmail" /\ "usedRaw" \in h.obs ->
         [h EXCEPT !.usedRaw = @ \cup {r.raw}]
    [] r.op = "verifyEmail" /\ "verified" \in h.obs ->
         [h EXCEPT !.verified = @ \cup {r.uid}]
    [] r.op = "logout" /\ "logout" \in h.obs /\ ~r.snap.again ->
         [h EXCEPT !.lastLogout = [uid |-> r.uid, tok |-> r.tok,
                                   list |-> Saved(r)[r.uid].refreshTokens]]
    [] r.op = "resetPassword" /\ "reset" \in h.obs ->
         [h EXCEPT !.usedRaw = @ \cup {r.raw}, !.resetPw[r.uid] = r.pw,
                   !.kept = {db[r.uid].refreshTokens[k].token :
                               k \in {j \in 1..Len(db[r.uid].refreshTokens) :
                                        db[r.uid].refreshTokens[j].expiresAt > now}}]
    [] r.op = "refresh" /\ "reset" \in h.obs -> [h EXCEPT !.kept = {}]
    [] r.op = "forgot" /\ "reset" \in h.obs ->
         [h EXCEPT !.superseded = @ \cup ({db[r.uid].resetToken.sha} \ {0})]
    [] r.op = "resend" /\ "superseded" \in h.obs ->
         [h EXCEPT !.superseded = @ \cup ({db[r.uid].emailVerificationToken.sha} \ {0})]
    [] r.op = "block" /\ "blockOn" \in h.obs -> [h EXCEPT !.blockOn = @ \cup {r.uid}]
    [] r.op = "unblock" -> [h EXCEPT !.blockOn = @ \ {r.uid}]
    [] OTHER -> h

\* The last user.save() of a request and its response.
SaveAndRespond(s) ==
  /\ reqs[s].pc = "save"
  /\ LET r == reqs[s]
     IN IF SaveFails(r)
        THEN /\ resp' = RespOf(r, INTERNAL_SERVER_ERROR)
             /\ reqs' = [reqs EXCEPT ![s] = Idle]
             /\ hist' = NoStreak(hist)
             /\ UNCHANGED << db, nextId, now, rnd, held >>
        ELSE /\ db' = Saved(r)
             /\ resp' = RespOf(r, r.status)
             /\ reqs' = [o \in Slots |->
                           IF o = s THEN Idle
                           ELSE IF r.op = "refresh" /\ r.rt # r.tok
                                   /\ reqs[o].op = "refresh" /\ reqs[o].tok = r.tok
                                THEN [reqs[o] EXCEPT !.peerOk = TRUE]
                                ELSE IF r.op = "login" /\ "peers" \in hist.obs
                                        /\ reqs[o].op = "login" /\ reqs[o].uid = r.uid
                                THEN [reqs[o] EXCEPT !.peers = @ \cup {r.rt}]
                                ELSE IF r.op = "changePassword"
                                        /\ "overtaken" \in hist.obs
                                        /\ reqs[o].op \in {"login", "refresh"}
                                        /\ reqs[o].uid = r.uid
                                THEN [reqs[o] EXCEPT !.peers =
                                        @ \cup r.pre \cup
                                        {db[r.uid].refreshTokens[k].token :
                                           k \in 1..Len(db[r.uid].refreshTokens)}]
                                ELSE reqs[o]]
             /\ held' = IF r.at # NoAccess THEN r.at ELSE held
             /\ hist' = Record(hist, r)
             /\ UNCHANGED << nextId, now, rnd >>

\* ------------------------------------------------------------ the inputs
\* the refresh tokens the server can have signed by now for the accounts 1..cap
SignedInputs(cap) == {generateRefreshToken(u, t) : u \in 1..cap, t \in 0..now}

\* the refresh tokens a client can present: those, and one signed with another key
RefreshInputs(cap) ==
  SignedInputs(cap) \cup {[key |-> "forged", sub |-> 1, iat |-> 0, exp |-> MaxTime + 1]}

\* the access tokens a client can present: the one it holds, none, and the one
\* it holds signed with another key
AccessInputs == {held, NoAccess, [held EXCEPT !.key = "forged"]}

UpdateInputs ==
  {[NoUpdate EXCEPT !.isBlocked = "true"], [NoUpdate EXCEPT !.isBlocked = "false"],
   [NoUpdate EXCEPT !.isActive = "false"], [NoUpdate EXCEPT !.email = "B@x.io"]}

\* --------------------- the session lifecycle, requests one after another
Init == InitWith({"revoked", "usedRaw", "streak"})

Next ==
  \/ Tick(MaxTime)
  \/ \E u \in {"ANN"}, e \in {"A@x.io"}, p \in {"pw1"} : RegisterStart(1, 1, 1, u, e, p)
  \/ RegisterInsert(1, BOOLEAN)
  \/ \E raw \in 1..MaxRand : VerifyEmailStart(1, 1, raw)
  \/ \E i \in {"A@x.io", "ann", "bob"}, p \in Passwords : LoginStart(1, 1, i, p)
  \/ LoginSave(1)
  \/ \E tok \in RefreshInputs(1) : RefreshStart(1, 1, tok)
  \/ RefreshSave(1)
  \/ \E tok \in RefreshInputs(1) : LogoutStart(1, 1, held, tok)
  \/ \E c \in Passwords, n \in Passwords : ChangePasswordStart(1, 1, held, c, n)
  \/ SaveAndRespond(1)

Spec == Init /\ [][Next]_vars

\* C1: a refresh token is single-use.  refreshToken(R1) with a stored,
\* unexpired R1 succeeds and returns a new refresh token R2 different from R1,
\* and once it has succeeded R1 is no longer a valid refresh token of the
\* account, so every later refreshToken(R1) is rejected.
C1_RefreshSingleUse ==
  resp.op = "refresh" =>
    /\ resp.snap.valid => resp.status = OK /\ resp.rt # resp.tok
    /\ resp.status = OK => ~isValidRefreshToken(db[resp.uid], resp.tok, now)

\* C3: after six logins in a row on an account whose token list was empty,
\* with no expiry and no other request between them, the list holds exactly
\* five entries, the tokens of logins 2..6 in issue order, and the token of
\* login 1 is no longer valid.
C3_FifoEviction ==
  Len(hist.streak) = MaxRefreshTokens + 1 =>
    LET stored == db[hist.streakOn].refreshTokens
    IN /\ Len(stored) = MaxRefreshTokens
       /\ \A k \in 1..MaxRefreshTokens :
            k <= Len(stored) => stored[k].token = hist.streak[k + 1]
       /\ ~isValidRefreshToken(db[hist.streakOn], hist.streak[1], now)

\* C4: once changePassword has succeeded, a refresh token that was stored
\* before it is rejected by every later refreshToken.
C4_ChangePasswordRevokes ==
  resp.op = "refresh" /\ resp.snap.revoked => ~Succeeded(resp.status)

InitAdmin == InitWith({"blockOn"})

NextAdmin ==
  \/ Tick(MaxTime)
  \/ \E u \in {"ANN"}, e \in {"A@x.io"}, p \in {"pw1"} : RegisterStart(1, 1, 1, u, e, p)
  \/ RegisterInsert(1, BOOLEAN)
  \/ \E raw \in 1..MaxRand : VerifyEmailStart(1, 1, raw)
  \/ \E i \in {"a@x.io"}, p \in Passwords : LoginStart(1, 1, i, p)
  \/ LoginSave(1)
  \/ \E tok \in RefreshInputs(1) : RefreshStart(1, 1, tok)
  \/ RefreshSave(1)
  \/ \E pat \in AccessInputs : Guard(1, 1, pat)
  \/ \E pat \in AccessInputs : OptionalGuard(1, 1, pat)
  \/ \E id \in {1} : DeactivateStart(1, 1, id)
  \/ \E id \in {1} : ActivateStart(1, 1, id)
  \/ \E id \in {1} : BlockStart(1, 1, id)
  \/ \E id \in {1} : UnblockStart(1, 1, id)
  \/ \E id \in {1}, upd \in UpdateInputs : UpdateStart(1, 1, id, upd)
  \/ UpdateApply(1)
  \/ \E id \in {1} : DeleteStart(1, 1, id)
  \/ DeleteApply(1)
  \/ SaveAndRespond(1)

SpecAdmin == InitAdmin /\ [][NextAdmin]_vars

\* C7: a refreshToken that succeeds was called for an account that was
\* active and not blocked at the time of the call.
C7_RefreshNeedsLiveAccount ==
  resp.op = "refresh" /\ Succeeded(resp.status) => resp.snap.live

\* C8: the guard lets a request through only if the access token verifies
\* and the account it names, reloaded from the store, exists, is active and is
\* not blocked; the email, role and username it attaches to the request are
\* those of the stored account.
C8_GuardReloadsAccount ==
  resp.op = "guard" /\ resp.status = OK =>
    /\ verifyAccessToken(resp.pat, resp.t)
    /\ db[resp.pat.sub].exists
    /\ db[resp.pat.sub].isActive
    /\ ~db[resp.pat.sub].isBlocked
    /\ resp.who = [userId |-> resp.pat.sub, email |-> db[resp.pat.sub].email,
                   role |-> db[resp.pat.sub].role,
                   username |-> db[resp.pat.sub].username]

\* the guard passes a token whose email claim is no longer the stored email,
\* and attaches the stored one
C8_Witness ==
  /\ resp.op = "guard" /\ resp.status = OK
  /\ resp.pat.email # db[resp.pat.sub].email
  /\ resp.who.email = db[resp.pat.sub].email

\* ----------------------------- the session lifecycle, two requests at a time
\* Slot 1 serves any request, slot 2 a login or a refreshToken that overlaps it.
InitConc == InitWith({"blockOn"})

NextConc ==
  \/ Tick(MaxTimeConc)
  \/ \E u \in {"ann"}, e \in {"a@x.io"}, p \in {"pw1"} : RegisterStart(1, 2, 1, u, e, p)
  \/ RegisterInsert(1, {TRUE})
  \/ \E raw \in 1..MaxRand : VerifyEmailStart(1, 2, raw)
  \/ \E s \in Slots, i \in {"ann"}, p \in {"pw1"} : LoginStart(s, 2, i, p)
  \/ \E s \in Slots : LoginSave(s)
  \/ \E s \in Slots, tok \in SignedInputs(1) : RefreshStart(s, 2, tok)
  \/ \E s \in Slots : RefreshSave(s)
  \/ \E tok \in SignedInputs(1) : LogoutStart(1, 2, held, tok)
  \/ \E c \in {"pw1"}, n \in {"pw1"} : ChangePasswordStart(1, 2, held, c, n)
  \/ \E id \in {1} : BlockStart(1, 2, id)
  \/ \E id \in {1} : DeactivateStart(1, 2, id)
  \/ \E s \in Slots : SaveAndRespond(s)

SpecConc == InitConc /\ [][NextConc]_vars

\* C2: in every reachable state, whatever the interleaving of register, login,
\* refreshToken, logout, changePassword, block and deactivate requests, the
\* stored refreshTokens list of each account has at most five entries.
C2_AtMostFiveTokens ==
  \A u \in Ids : Len(db[u].refreshTokens) <= MaxRefreshTokens

\* a request has just stored a token list that was full: the oldest entry is
\* gone, its own token is the last of five
C2_Witness ==
  /\ resp.op \in {"login", "refresh"} /\ Succeeded(resp.status) /\ resp.shifted
  /\ Len(db[resp.uid].refreshTokens) = MaxRefreshTokens

\* C5: once blockUser has succeeded and until the account is unblocked, no
\* refresh token of the account is accepted and every login and every
\* refreshToken for the account that arrives fails.
C5_BlockRevokes ==
  resp.op \in {"login", "refresh"} /\ resp.snap.blocked => ~Succeeded(resp.status)

\* C6: of two refreshToken requests that present the same valid token R1 and
\* interleave, at most one returns a new token pair: no refreshToken returns
\* a refresh token other than R1 when a request that overlapped it already
\* returned one for R1.
C6_NoDoubleRefresh ==
  ~(resp.op = "refresh" /\ Succeeded(resp.status) /\ resp.rt # resp.tok /\ resp.peerOk)

\* ------------------------------------- two accounts, two requests at a time
InitReg == InitWith({})

RegInputs ==
  {[NoUpdate EXCEPT !.email = "B@x.io"], [NoUpdate EXCEPT !.username = "BOB"]}

NextReg ==
  \/ Tick(MaxTimeConc)
  \/ \E s \in Slots, u \in Usernames, e \in Emails, p \in {"pw1"} :
       RegisterStart(s, 2, 2, u, e, p)
  \/ \E s \in Slots : RegisterInsert(s, {TRUE})
  \/ \E s \in Slots, id \in Ids, upd \in RegInputs : UpdateStart(s, 2, id, upd)
  \/ \E s \in Slots : UpdateApply(s)
  \/ \E s \in Slots : SaveAndRespond(s)

SpecReg == InitReg /\ [][NextReg]_vars

\* C9: register with an email or a username that, ignoring case, an existing
\* account has is answered Conflict and creates no account; and in every
\* reachable state, whatever the interleaving of register requests, no two
\* accounts share an email or a username, ignoring case (the stored values are
\* lower-case and differ).
C9_UniqueAccounts ==
  /\ \A i \in Ids : db[i].exists =>
        /\ db[i].email = ToLowerCase(db[i].email)
        /\ db[i].username = ToLowerCase(db[i].username)
        /\ \A j \in Ids \ {i} : db[j].exists =>
              db[i].email # db[j].email /\ db[i].username # db[j].username
  /\ resp.op = "register" /\ resp.snap.dup =>
        resp.status = CONFLICT /\ resp.uid = 0 /\ resp.rt = NoRefresh

\* a register that found no duplicate when it checked has lost the race to the
\* insert of another register: it is answered Conflict, one account exists
C9_Witness ==
  /\ resp.op = "register" /\ ~resp.snap.dup /\ resp.status = CONFLICT
  /\ Cardinality({i \in Ids : db[i].exists}) = 1

\* ------------ the tokens sent by email, requests one after another
InitMail == InitWith({"usedRaw", "superseded"})

NextMail ==
  \/ Tick(MaxTime)
  \/ \E u \in {"ann"}, e \in {"a@x.io"}, p \in {"pw1"} : RegisterStart(1, 1, 1, u, e, p)
  \/ RegisterInsert(1, BOOLEAN)
  \/ \E raw \in 1..MaxRand : VerifyEmailStart(1, 1, raw)
  \/ \E e \in {"A@x.io", "b@x.io"} : ResendStart(1, 1, e, BOOLEAN)
  \/ \E e \in {"A@x.io", "b@x.io"} : ForgotStart(1, 1, e, BOOLEAN)
  \/ \E raw \in 1..MaxRand : VerifyResetToken(1, 1, raw)
  \/ \E raw \in 1..MaxRand, p \in Passwords : ResetPasswordStart(1, 1, raw, p)
  \/ \E i \in {"ann"}, p \in Passwords : LoginStart(1, 1, i, p)
  \/ LoginSave(1)
  \/ SaveAndRespond(1)

SpecMail == InitMail /\ [][NextMail]_vars

InitSession == InitWith({"logout"})

NextSession ==
  \/ Tick(MaxTime)
  \/ \E u \in {"ann"}, e \in {"a@x.io"}, p \in {"pw1"} : RegisterStart(1, 1, 1, u, e, p)
  \/ RegisterInsert(1, {TRUE})
  \/ \E raw \in 1..MaxRand : VerifyEmailStart(1, 1, raw)
  \/ \E i \in {"ann"}, p \in {"pw1"} : LoginStart(1, 1, i, p)
  \/ LoginSave(1)
  \/ \E tok \in SignedInputs(1) : RefreshStart(1, 1, tok)
  \/ RefreshSave(1)
  \/ \E tok \in SignedInputs(1) : LogoutStart(1, 1, held, tok)
  \/ SaveAndRespond(1)

SpecSession == InitSession /\ [][NextSession]_vars

\* C12: logout is idempotent.  A logout that repeats the logout before it (same
\* account, same refresh token, no other request between) succeeds and leaves
\* the stored refresh-token list exactly as the first call left it.
C12_LogoutIdempotent ==
  [][resp' # resp /\ resp'.op = "logout" /\ resp'.snap.again =>
       /\ resp'.status = OK
       /\ db'[resp'.uid].refreshTokens = hist.lastLogout.list]_vars

\* C12 as amended: the repeated logout succeeds and leaves the list as the
\* first call left it, less the entries that have expired by the time it saves.
C12_LogoutIdempotentUnexpired ==
  [][resp' # resp /\ resp'.op = "logout" /\ resp'.snap.again =>
       /\ resp'.status = OK
       /\ db'[resp'.uid].refreshTokens =
            preSave([NoDoc EXCEPT !.refreshTokens = hist.lastLogout.list],
                    now).refreshTokens]_vars

\* a repeated logout has succeeded on an account that still has other sessions
C12_Witness ==
  /\ resp.op = "logout" /\ resp.snap.again /\ resp.status = OK
  /\ hist.lastLogout.uid = resp.uid /\ hist.lastLogout.tok = resp.tok
  /\ hist.lastLogout.list # << >>
  /\ db[resp.uid].refreshTokens # << >>

\* ------------------ two accounts logging in and out, requests one after another
InitLogout == InitWith({})

NextLogout ==
  \/ Tick(MaxTime)
  \/ \E a \in {<< "ann", "a@x.io" >>, << "bob", "b@x.io" >>}, p \in {"pw1"} :
       RegisterStart(1, 1, 2, a[1], a[2], p)
  \/ RegisterInsert(1, {TRUE})
  \/ \E raw \in 1..MaxRand : VerifyEmailStart(1, 1, raw)
  \/ \E i \in {"ann", "bob"}, p \in {"pw1"} : LoginStart(1, 1, i, p)
  \/ LoginSave(1)
  \/ \E tok \in SignedInputs(2) : LogoutStart(1, 1, held, tok)
  \/ SaveAndRespond(1)

SpecLogout == InitLogout /\ [][NextLogout]_vars

\* C13: logout(userId, R), R a refresh token of that account, revokes exactly R.
\* When the logout has answered, R is no longer valid, and every other refresh
\* token that was valid before it, of that account and of every other account,
\* is still valid.
C13_LogoutRevokesExactlyR ==
  [][\A s \in Slots :
       reqs[s].op = "logout" /\ reqs[s].pc = "save" /\ reqs'[s] = Idle
       /\ resp'.status = OK /\ reqs[s].tok.sub = reqs[s].uid =>
         /\ ~isValidRefreshToken(db'[reqs[s].uid], reqs[s].tok, now)
         /\ \A i \in Ids : \A k \in 1..Len(db[i].refreshTokens) :
              LET e == db[i].refreshTokens[k]
              IN e.token # reqs[s].tok /\ e.expiresAt > now =>
                   isValidRefreshToken(db'[i], e.token, now)]_vars

\* a logout has removed a token that was valid, another token of the account
\* and a token of the other account are still valid
C13_Witness ==
  /\ resp.op = "logout" /\ resp.status = OK /\ resp.snap.valid
  /\ ~isValidRefreshToken(db[resp.uid], resp.tok, now)
  /\ \E k \in 1..Len(db[resp.uid].refreshTokens) :
       db[resp.uid].refreshTokens[k].expiresAt > now
  /\ \E o \in Ids \ {resp.uid} : \E k \in 1..Len(db[o].refreshTokens) :
       db[o].refreshTokens[k].expiresAt > now

\* C14: a successful refreshToken(R1) replaces exactly the presented token, so
\* no refresh token other than R1 is invalidated by a refresh: every other token
\* that was stored before the call and has not expired is still valid after it.
C14_RefreshKeepsOtherTokens ==
  [][\A s \in Slots :
       reqs[s].op = "refresh" /\ reqs[s].pc = "save" /\ reqs'[s] = Idle
       /\ resp'.status = OK =>
         \A t \in reqs[s].pre :
           t # reqs[s].tok /\ t.exp > now =>
             isValidRefreshToken(db'[reqs[s].uid], t, now)]_vars

\* --------------------------------- one account, two logins at a time
InitLogins == InitWith({"peers"})

NextLogins ==
  \/ Tick(MaxTime)
  \/ \E u \in {"ann"}, e \in {"a@x.io"}, p \in {"pw1"} : RegisterStart(1, 2, 1, u, e, p)
  \/ RegisterInsert(1, {TRUE})
  \/ \E raw \in 1..MaxRand : VerifyEmailStart(1, 2, raw)
  \/ \E s \in Slots, i \in {"ann", "a@x.io"}, p \in Passwords : LoginStart(s, 2, i, p)
  \/ \E s \in Slots : LoginSave(s)
  \/ \E s \in Slots : SaveAndRespond(s)

SpecLogins == InitLogins /\ [][NextLogins]_vars

\* C15: two logins of one account that overlap both succeed, and once both have
\* completed, both returned refresh tokens (unless expired by then) are in the
\* stored list, which has at most five entries.  The login that completes last
\* is the one whose request was in flight when the other one answered.
C15_ConcurrentLoginsBothStored ==
  [][\A s \in Slots :
       reqs[s].op = "login" /\ reqs[s].pc = "save" /\ reqs[s].peers # {}
       /\ reqs' = [o \in Slots |-> Idle] /\ resp' # resp =>
         /\ resp'.status = OK
         /\ \A t \in reqs[s].peers \cup {reqs[s].rt} :
              t.exp > now => isValidRefreshToken(db'[reqs[s].uid], t, now)
         /\ Len(db'[reqs[s].uid].refreshTokens) <= MaxRefreshTokens]_vars

\* C16: login never reveals whether an identifier exists.  Whatever the state of
\* the account, a login with an existing identifier and a wrong password gets
\* the answer of a login with an unknown identifier, InvalidCredentials (401).
C16_LoginHidesExistence ==
  resp.op = "login" /\ ~resp.snap.valid => resp.status = UNAUTHORIZED

\* ------------- registration, verification and login, requests one after another
InitVerify == InitWith({"verified"})

VerifyInputs ==
  {[NoUpdate EXCEPT !.emailVerified = "true"], [NoUpdate EXCEPT !.emailVerified = "false"]}

NextVerify ==
  \/ Tick(MaxTime)
  \/ \E u \in {"ANN"}, e \in {"A@x.io"}, p \in {"pw1"} : RegisterStart(1, 1, 1, u, e, p)
  \/ RegisterInsert(1, BOOLEAN)
  \/ \E raw \in 1..MaxRand : VerifyEmailStart(1, 1, raw)
  \/ \E i \in {"ann", "bob"}, p \in Passwords : LoginStart(1, 1, i, p)
  \/ LoginSave(1)
  \/ \E id \in {1}, upd \in VerifyInputs : UpdateStart(1, 1, id, upd)
  \/ UpdateApply(1)
  \/ SaveAndRespond(1)

SpecVerify == InitVerify /\ [][NextVerify]_vars

\* C17: a freshly registered account has emailVerified = false and register
\* returns an access token for it; every login for that account before a
\* successful verifyEmail fails with EmailNotVerified, whatever the password.
C17_LoginNeedsVerifyEmail ==
  /\ [](/\ resp.op = "register" /\ resp.status = CREATED =>
             resp.at = generateAccessToken(resp.uid, db[resp.uid], resp.at.iat)
        /\ resp.op = "login" /\ resp.uid # 0 /\ ~resp.snap.verified =>
             resp.error = "Email not verified")
  /\ [][\A u \in Ids : ~db[u].exists /\ db'[u].exists => ~db'[u].emailVerified]_vars

\* C17 as amended: the same, for every login before a successful verifyEmail
\* and before an updateUser that sets emailVerified.
C17_LoginNeedsVerifiedFlag ==
  /\ [](/\ resp.op = "register" /\ resp.status = CREATED =>
             resp.at = generateAccessToken(resp.uid, db[resp.uid], resp.at.iat)
        /\ resp.op = "login" /\ resp.uid # 0
             /\ ~resp.snap.verified /\ ~resp.snap.marked =>
             resp.error = "Email not verified")
  /\ [][\A u \in Ids : ~db[u].exists /\ db'[u].exists => ~db'[u].emailVerified]_vars

\* a login with the right password is refused on an account that has been
\* registered and not verified
C17_Witness ==
  /\ resp.op = "login" /\ resp.uid # 0 /\ resp.snap.valid
  /\ ~resp.snap.verified /\ ~resp.snap.marked
  /\ resp.error = "Email not verified"
  /\ db[resp.uid].exists /\ ~db[resp.uid].emailVerified

\* C18: a failed login changes nothing.  Every login with an existing
\* identifier and a wrong password fails with InvalidCredentials; a login that
\* fails leaves every account record as it was; and there is no lockout: a
\* login with the right password on a verified, active, unblocked account
\* succeeds whatever failed before it.
C18_FailedLoginChangesNothing ==
  /\ [](resp.op = "login" /\ resp.uid # 0 =>
          /\ ~resp.snap.valid => resp.error = "Invalid credentials"
          /\ resp.snap.valid /\ resp.snap.live /\ db[resp.uid].emailVerified =>
               Succeeded(resp.status))
  /\ [][resp' # resp /\ resp'.op = "login" /\ ~Succeeded(resp'.status) => db' = db]_vars

\* C19: a notifier failure at registration is not an error.  Whether or not the
\* verification email could be sent, a register that meets no duplicate
\* answers 201 with an access token and a refresh token, the account is stored
\* with the hash of the verification token, and the refresh token, until it
\* expires, is in its list; only the message tells the two outcomes apart.
C19_RegisterSurvivesNotifier ==
  resp.op = "register" /\ ~resp.snap.dup =>
    /\ resp.status = CREATED
    /\ resp.at = generateAccessToken(resp.uid, db[resp.uid], resp.at.iat)
    /\ resp.rt = generateRefreshToken(resp.uid, resp.rt.iat)
    /\ db[resp.uid].exists
    /\ db[resp.uid].emailVerificationToken = hashToken(resp.raw)
    /\ db[resp.uid].emailVerificationToken # NoHash
    /\ \/ resp.rt.exp <= now
       \/ \E k \in 1..Len(db[resp.uid].refreshTokens) :
            db[resp.uid].refreshTokens[k].token = resp.rt

\* a register whose verification email could not be sent has answered 201
C19_Witness ==
  /\ resp.op = "register" /\ ~resp.sent /\ resp.status = CREATED
  /\ db[resp.uid].exists /\ db[resp.uid].emailVerificationToken = hashToken(resp.raw)
  /\ db[resp.uid].refreshTokens # << >>

InitReset == InitWith({"reset"})

NextReset ==
  \/ Tick(MaxTime)
  \/ \E u \in {"ann"}, e \in {"a@x.io"}, p \in {"pw1"} : RegisterStart(1, 1, 1, u, e, p)
  \/ RegisterInsert(1, {TRUE})
  \/ \E raw \in 1..MaxRand : VerifyEmailStart(1, 1, raw)
  \/ \E e \in {"A@x.io"} : ForgotStart(1, 1, e, BOOLEAN)
  \/ \E raw \in 1..MaxRand : VerifyResetToken(1, 1, raw)
  \/ \E raw \in 1..MaxRand, p \in Passwords : ResetPasswordStart(1, 1, raw, p)
  \/ \E i \in {"ann"}, p \in Passwords : LoginStart(1, 1, i, p)
  \/ LoginSave(1)
  \/ SaveAndRespond(1)

SpecReset == InitReset /\ [][NextReset]_vars

C22_OptionalGuardNeverFails ==
  resp.op = "optional" =>
    /\ resp.status = OK
    /\ resp.who # NoWho <=>
         resp.pat.key # "none" /\ verifyAccessToken(resp.pat, resp.t) /\ resp.snap.live
    /\ resp.who # NoWho =>
         /\ resp.who.userId = resp.pat.sub
         /\ resp.who.email = db[resp.pat.sub].email
         /\ resp.who.role = db[resp.pat.sub].role
         /\ resp.who.username = db[resp.pat.sub].username

\* the optional guard has let a request through with no identity although its
\* token verifies: the account is blocked, deactivated or deleted
C22_Witness ==
  /\ resp.op = "optional" /\ resp.status = OK /\ resp.who = NoWho
  /\ verifyAccessToken(resp.pat, resp.t) /\ ~resp.snap.live

\* ------------------------------------- the user model with the status enum
\* The schema variant whose status field replaces isActive and isBlocked.
UserStatus ==
  {"active", "inactive", "blocked", "suspended", "pending_verification",
   "deletion_requested", "deleted"}

\* the thirty days of the deletion window, in ticks of the clock
DeletionWindow == 2

\* UserSchema.methods.isDeletionExpired
isDeletionExpired(doc, t) ==
  IF doc.deletionRequestedAt = -1 THEN FALSE
  ELSE doc.deletionRequestedAt <= t - DeletionWindow

\* the mutant of canLogin: the deletion window is never looked at
canLoginNoWindow(doc, t) ==
  IF doc.status = "deletion_requested" THEN doc.emailVerified
  ELSE doc.status = "active" /\ doc.emailVerified

\* UserSchema.methods.canLogin
canLogin(doc, t) ==
  IF doc.status = "deletion_requested" /\ ~isDeletionExpired(doc, t)
  THEN doc.emailVerified
  ELSE doc.status \in {"active"} /\ doc.emailVerified

\* UserSchema.methods.activate
activate(doc) == [doc EXCEPT !.status = "active"]

\* UserSchema.methods.deactivate
deactivate(doc) == [doc EXCEPT !.status = "inactive"]

\* UserSchema.methods.block
block(doc) == [doc EXCEPT !.status = "blocked", !.refreshTokens = << >>]

\* UserSchema.methods.unblock
unblock(doc) == [doc EXCEPT !.status = "active"]

\* the mutant of requestDeletion: the request is not dated
requestDeletionNoStamp(doc, t) == [doc EXCEPT !.status = "deletion_requested"]

\* UserSchema.methods.requestDeletion
requestDeletion(doc, t) ==
  [doc EXCEPT !.deletionRequestedAt = t, !.status = "deletion_requested"]

\* UserSchema.methods.cancelDeletionRequest
cancelDeletionRequest(doc) ==
  [doc EXCEPT !.deletionRequestedAt = -1, !.status = "active"]

\* UserSchema.methods.reactivateAccount
reactivateAccount(doc, t) ==
  [doc EXCEPT !.deletionRequestedAt = -1, !.status = "active", !.lastLogin = t]

Methods ==
  {"activate", "deactivate", "block", "unblock", "requestDeletion",
   "cancelDeletionRequest", "reactivateAccount"}

\* the document after the status management method m
applied(m, doc, t) ==
  CASE m = "activate" -> activate(doc)
    [] m = "deactivate" -> deactivate(doc)
    [] m = "block" -> block(doc)
    [] m = "unblock" -> unblock(doc)
    [] m = "requestDeletion" -> requestDeletion(doc, t)
    [] m = "cancelDeletionRequest" -> cancelDeletionRequest(doc)
    [] OTHER -> reactivateAccount(doc, t)

\* the mutant of preSaveStatus: a verified email activates whatever the status
preSaveStatusAnyStatus(doc, modified, t) ==
  LET Keep(rt) == rt.expiresAt > t
      pruned == [doc EXCEPT !.refreshTokens = SelectSeq(@, Keep)]
  IN IF "emailVerified" \in modified /\ doc.emailVerified
     THEN [pruned EXCEPT !.status = "active"]
     ELSE pruned

\* UserSchema.pre('save') of the status variant: expired refresh tokens go, and
\* a newly verified email moves pending_verification to active
preSaveStatus(doc, modified, t) ==
  LET Keep(rt) == rt.expiresAt > t
      pruned == [doc EXCEPT !.refreshTokens = SelectSeq(@, Keep)]
  IN IF "emailVerified" \in modified /\ doc.emailVerified
        /\ doc.status = "pending_verification"
     THEN [pruned EXCEPT !.status = "active"]
     ELSE pruned

\* the paths of local that differ from the stored document
Changed(stored, local) ==
  {f \in DOMAIN local : local[f] # stored[f]}

\* user.save() of request r under the status variant's hook
SaveStatus(s) ==
  /\ reqs[s].pc = "save"
  /\ LET r == reqs[s]
         modified == r.dirty \cap Changed(db[r.uid], r.doc)
         d == preSaveStatus(r.doc, modified, now)
     IN /\ db' = [db EXCEPT ![r.uid] =
                    persist(@, d, modified \cup Changed(r.doc, d))]
        /\ resp' = [RespOf(r, r.status) EXCEPT !.was = db[r.uid]]
        /\ reqs' = [reqs EXCEPT ![s] = Idle]
        /\ held' = IF r.at # NoAccess THEN r.at ELSE held
        /\ hist' = Record(hist, r)
        /\ UNCHANGED << nextId, now, rnd >>

\* A status management method called on a stored account, then saved.
StatusCall(s, par, id, m) ==
  /\ CanStart(s, par)
  /\ db[id].exists
  /\ LET local == applied(m, db[id], now)
         d == preSaveStatus(local, Changed(db[id], local), now)
     IN /\ db' = [db EXCEPT ![id] = d]
        /\ resp' = [NoResp EXCEPT !.op = m, !.uid = id, !.status = OK, !.t = now,
                                  !.was = db[id]]
  /\ hist' = NoStreak(hist)
  /\ UNCHANGED << nextId, now, rnd, reqs, held >>

\* canLogin() asked of a stored account.
CanLoginCall(id) ==
  /\ db[id].exists
  /\ resp' = [NoResp EXCEPT !.op = "canLogin", !.uid = id, !.t = now,
                            !.ret = canLogin(db[id], now), !.was = db[id]]
  /\ hist' = NoStreak(hist)
  /\ UNCHANGED << db, nextId, now, rnd, reqs, held >>

\* ------------------------------ canLogin over every combination of its inputs
InitCanLogin ==
  /\ \E st \in UserStatus, v \in BOOLEAN, at \in -1..MaxTime :
       db = [i \in Ids |->
               IF i = 1
               THEN [NoDoc EXCEPT !.exists = TRUE, !.email = "a@x.io",
                                  !.username = "ann", !.role = "user",
                                  !.passwordHash = hashPassword("pw1"),
                                  !.status = st, !.emailVerified = v,
                                  !.deletionRequestedAt = at]
               ELSE NoDoc]
  /\ nextId = 2
  /\ now = 0
  /\ rnd = 0
  /\ reqs = [s \in Slots |-> Idle]
  /\ resp = NoResp
  /\ held = NoAccess
  /\ hist = History({})

NextCanLogin ==
  \/ Tick(MaxTime + DeletionWindow)
  \/ CanLoginCall(1)

SpecCanLogin == InitCanLogin /\ [][NextCanLogin]_vars

\* C24 as stated: canLogin() is true exactly when the email is verified and the
\* status is active, or deletion_requested with a recorded request whose window
\* has not expired; it is false for deletion_requested without a recorded
\* deletionRequestedAt.
C24_CanLoginNeedsDate ==
  resp.op = "canLogin" =>
    (resp.ret <=>
       /\ resp.was.emailVerified
       /\ \/ resp.was.status = "active"
          \/ /\ resp.was.status = "deletion_requested"
             /\ resp.was.deletionRequestedAt # -1
             /\ resp.t < resp.was.deletionRequestedAt + DeletionWindow)

\* C24: canLogin() is true exactly when the email is verified and the status is
\* active, or deletion_requested and not expired, where a request without a
\* recorded deletionRequestedAt never expires; false in every other case.
C24_CanLogin ==
  resp.op = "canLogin" =>
    (resp.ret <=>
       /\ resp.was.emailVerified
       /\ \/ resp.was.status = "active"
          \/ /\ resp.was.status = "deletion_requested"
             /\ \/ resp.was.deletionRequestedAt = -1
                \/ resp.t < resp.was.deletionRequestedAt + DeletionWindow)

C24_Witness ==
  /\ resp.op = "canLogin" /\ resp.ret
  /\ resp.was.status = "deletion_requested"
  /\ resp.was.deletionRequestedAt = -1

\* --------------------- the status variant from registration on, one request
\* at a time
InitStatus == InitWith({})

NextStatus ==
  \/ Tick(MaxTime + DeletionWindow)
  \/ RegisterStart(1, 1, 1, "ann", "a@x.io", "pw1")
  \/ RegisterInsert(1, {TRUE})
  \/ \E raw \in 1..MaxRand : VerifyEmailStart(1, 1, raw)
  \/ SaveStatus(1)
  \/ \E m \in Methods : StatusCall(1, 1, 1, m)
  \/ CanLoginCall(1)

SpecStatus == InitStatus /\ [][NextStatus]_vars

C30_DeletionRequestDated ==
  /\ \A i \in Ids : db[i].exists /\ db[i].status = "deletion_requested" =>
       db[i].deletionRequestedAt # -1
  /\ resp.op \in {"cancelDeletionRequest", "reactivateAccount"} =>
       db[resp.uid].status = "active" /\ db[resp.uid].deletionRequestedAt = -1

C30_Witness ==
  /\ resp.op \in {"cancelDeletionRequest", "reactivateAccount"}
  /\ resp.was.status = "deletion_requested" /\ resp.was.deletionRequestedAt # -1
  /\ db[resp.uid].status = "active"

\* ------------- changePassword while a login or a refreshToken is in flight
\* A login or refreshToken that has read the account when changePassword saves
\* carries, in peers, the refresh tokens issued before that save.
InitOvertake == InitWith({"overtaken"})

NextOvertake ==
  \/ Tick(MaxTimeConc)
  \/ RegisterStart(1, 2, 1, "ann", "a@x.io", "pw1")
  \/ RegisterInsert(1, {TRUE})
  \/ \E raw \in 1..MaxRand : VerifyEmailStart(1, 2, raw)
  \/ \E s \in Slots : LoginStart(s, 2, "ann", "pw1")
  \/ \E s \in Slots : LoginSave(s)
  \/ \E tok \in SignedInputs(1) : RefreshStart(2, 2, tok)
  \/ RefreshSave(2)
  \/ ChangePasswordStart(1, 2, held, "pw1", "pw1")
  \/ \E s \in Slots : SaveAndRespond(s)

SpecOvertake == InitOvertake /\ [][NextOvertake]_vars

\* C26: when a login or a refreshToken read the account before changePassword
\* saved and saves its own token after it, no refresh token issued before the
\* save of changePassword is stored once both have completed (the token the
\* request itself returns aside).
C26_ChangePasswordSurvivesRace ==
  [][resp' # resp /\ resp'.op \in {"login", "refresh"} /\ Succeeded(resp'.status) =>
       \A tok \in resp'.peers \ {resp'.rt} :
         \A k \in 1..Len(db'[resp'.uid].refreshTokens) :
           db'[resp'.uid].refreshTokens[k].token # tok]_vars

\* --------------------------- resetPassword and the sessions opened before it
\* hist.kept holds the refresh tokens stored and unexpired when the last
\* resetPassword saved, until a refreshToken rotates one of them.
InitResetSessions == InitWith({"reset"})

NextResetSessions ==
  \/ Tick(MaxTime)
  \/ RegisterStart(1, 1, 1, "ann", "a@x.io", "pw1")
  \/ RegisterInsert(1, {TRUE})
  \/ ForgotStart(1, 1, "a@x.io", {TRUE})
  \/ \E raw \in 1..MaxRand, p \in Passwords : ResetPasswordStart(1, 1, raw, p)
  \/ \E tok \in SignedInputs(1) : RefreshStart(1, 1, tok)
  \/ RefreshSave(1)
  \/ SaveAndRespond(1)

SpecResetSessions == InitResetSessions /\ [][NextResetSessions]_vars

\* C27: the save of resetPassword changes passwordHash, resetToken and
\* resetTokenExpiry and drops the expired refresh tokens, nothing else of any
\* account; a refresh token stored before the reset and not expired is accepted
\* by the refreshToken that follows.
C27_ResetKeepsSessions ==
  /\ [](resp.op = "refresh" /\ resp.snap.kept => Succeeded(resp.status))
  /\ [][resp' # resp /\ resp'.op = "resetPassword" /\ resp'.status = OK =>
         LET u == resp'.uid
             Fresh(rt) == rt.expiresAt > now
         IN /\ db'[u] = [db[u] EXCEPT
                           !.passwordHash = hashPassword(resp'.pw),
                           !.resetToken = NoHash,
                           !.resetTokenExpiry = -1,
                           !.refreshTokens = SelectSeq(@, Fresh)]
            /\ \A o \in Ids \ {u} : db'[o] = db[o]]_vars

C27_Witness ==
  /\ resp.op = "refresh" /\ resp.snap.kept /\ Succeeded(resp.status)
  /\ hist.resetPw[resp.uid] = "pw2"

\* ------------------------- the sessions of an account before it is verified
InitUnverified == InitWith({"verified"})

NextUnverified ==
  \/ Tick(MaxTime)
  \/ RegisterStart(1, 1, 1, "ann", "a@x.io", "pw1")
  \/ RegisterInsert(1, {TRUE})
  \/ \E raw \in 1..MaxRand : VerifyEmailStart(1, 1, raw)
  \/ \E p \in Passwords : LoginStart(1, 1, "ann", p)
  \/ LoginSave(1)
  \/ \E pat \in AccessInputs : Guard(1, 1, pat)
  \/ \E tok \in SignedInputs(1) : RefreshStart(1, 1, tok)
  \/ RefreshSave(1)
  \/ SaveAndRespond(1)

SpecUnverified == InitUnverified /\ [][NextUnverified]_vars

\* C28: whether or not the email is verified, the guard passes an access token
\* that verifies for the (active, unblocked) account and refreshToken rotates a
\* refresh token that is stored and not expired, the tokens of register and
\* those of earlier rotations alike; a login for the account answers Email not
\* verified as long as the email has not been verified.
C28_SessionsIgnoreEmailVerified ==
  /\ resp.op = "guard" /\ verifyAccessToken(resp.pat, resp.t)
       /\ db[resp.pat.sub].exists => resp.status = OK
  /\ resp.op = "refresh" /\ resp.snap.valid => Succeeded(resp.status)
  /\ resp.op = "login" /\ resp.uid # 0 /\ ~resp.snap.verified =>
       resp.status = FORBIDDEN /\ resp.error = "Email not verified"

\* a token obtained by a rotation is rotated in its turn, the account unverified
C28_Witness ==
  /\ resp.op = "refresh" /\ Succeeded(resp.status)
  /\ resp.tok.iat > 0
  /\ db[resp.uid].exists /\ ~db[resp.uid].emailVerified /\ hist.verified = {}

\* ------------------------------------------- the admin routes and their issuer
\* updateUserRole up to its save.
RoleStart(s, par, id, role) ==
  /\ CanStart(s, par)
  /\ LET r0 == [Idle EXCEPT !.op = "role", !.uid = id]
     IN IF ~db[id].exists THEN Reject(r0, NOT_FOUND)
        ELSE IF db[id].role = role THEN Reject(r0, BAD_REQUEST)
        ELSE Proceed(s, [r0 EXCEPT !.pc = "save", !.status = OK,
                                   !.doc = [db[id] EXCEPT !.role = role],
                                   !.dirty = {"role"}])

\* What stands before the service call of an admin route: authenticate,
\* requireAdmin and, in the controllers that have it (guarded), the refusal to
\* act on the account of the issuer.
gate(pat, id, guarded) ==
  LET st == authenticate(pat, now)
  IN IF st # OK THEN st
     ELSE IF attached(pat).role # "admin" THEN FORBIDDEN
     ELSE IF guarded /\ id = pat.sub THEN BAD_REQUEST
     ELSE OK

\* the request of an admin route, as refused before the service
Refused(op, pat, id) == [Idle EXCEPT !.op = op, !.uid = id, !.pat = pat]

\* PUT /api/users/:id/deactivate
AdminDeactivate(s, par, pat, id) ==
  IF gate(pat, id, TRUE) # OK
  THEN CanStart(s, par) /\ Reject(Refused("deactivate", pat, id), gate(pat, id, TRUE))
  ELSE DeactivateStart(s, par, id)

\* PUT /api/users/:id/block
AdminBlock(s, par, pat, id) ==
  IF gate(pat, id, TRUE) # OK
  THEN CanStart(s, par) /\ Reject(Refused("block", pat, id), gate(pat, id, TRUE))
  ELSE BlockStart(s, par, id)

\* DELETE /api/users/:id
AdminDelete(s, par, pat, id) ==
  IF gate(pat, id, TRUE) # OK
  THEN CanStart(s, par) /\ Reject(Refused("delete", pat, id), gate(pat, id, TRUE))
  ELSE DeleteStart(s, par, id)

\* PUT /api/users/:id/role
AdminRole(s, par, pat, id, role) ==
  IF gate(pat, id, TRUE) # OK
  THEN CanStart(s, par) /\ Reject(Refused("role", pat, id), gate(pat, id, TRUE))
  ELSE RoleStart(s, par, id, role)

\* PUT /api/users/:id: the controller has no refusal of its own
AdminUpdate(s, par, pat, id, upd) ==
  IF gate(pat, id, FALSE) # OK
  THEN CanStart(s, par) /\ Reject(Refused("update", pat, id), gate(pat, id, FALSE))
  ELSE UpdateStart(s, par, id, upd)

\* the fields of the update body that touch the standing of an account
SelfInputs ==
  {[NoUpdate EXCEPT !.isActive = "false"], [NoUpdate EXCEPT !.isBlocked = "true"],
   [NoUpdate EXCEPT !.role = "user"]}

\* An admin (account 1) and a user (account 2), both verified; every admin
\* request below carries the access token of the last login, which is the
\* admin's.
InitSelf ==
  /\ db = [i \in Ids |->
            [NoDoc EXCEPT !.exists = TRUE,
                          !.email = IF i = 1 THEN "a@x.io" ELSE "b@x.io",
                          !.username = IF i = 1 THEN "ann" ELSE "bob",
                          !.passwordHash = hashPassword("pw1"),
                          !.role = IF i = 1 THEN "admin" ELSE "user",
                          !.emailVerified = TRUE,
                          !.isActive = TRUE]]
  /\ nextId = 3
  /\ now = 0
  /\ rnd = 0
  /\ reqs = [s \in Slots |-> Idle]
  /\ resp = NoResp
  /\ held = NoAccess
  /\ hist = History({})

NextSelf ==
  \/ Tick(MaxTime)
  \/ LoginStart(1, 1, "ann", "pw1")
  \/ LoginSave(1)
  \/ \E id \in Ids : AdminDeactivate(1, 1, held, id)
  \/ \E id \in Ids : AdminBlock(1, 1, held, id)
  \/ \E id \in Ids : AdminDelete(1, 1, held, id)
  \/ \E id \in Ids, role \in {"admin", "user"} : AdminRole(1, 1, held, id, role)
  \/ \E id \in Ids, upd \in SelfInputs : AdminUpdate(1, 1, held, id, upd)
  \/ UpdateApply(1)
  \/ DeleteApply(1)
  \/ SaveAndRespond(1)

SpecSelf == InitSelf /\ [][NextSelf]_vars

\* C29: whatever admin requests the admin issues (deactivate, block, delete,
\* role change, update by id), the admin's own account still exists, is active,
\* is not blocked and has the role admin.
C29_AdminKeepsOwnAccount ==
  /\ held.sub \in {0, 1}
  /\ db[1].exists /\ db[1].isActive /\ ~db[1].isBlocked /\ db[1].role = "admin"

\* --------------- collisions on email and username, requests one after another
InitDup == InitWith({})

DupInputs ==
  {[NoUpdate EXCEPT !.email = e, !.username = u] : e \in {"A@x.io", "b@x.io"},
                                                    u \in {"ann", "BOB"}}

NextDup ==
  \/ \E u \in {"ann", "BOB"}, e \in {"A@x.io", "b@x.io"}, p \in {"pw1"} :
       CreateStart(1, 1, 2, u, e, p)
  \/ CreateInsert(1)
  \/ \E u \in {"ann", "BOB"}, e \in {"A@x.io", "b@x.io"}, p \in {"pw1"} :
       RegisterStart(1, 1, 2, u, e, p)
  \/ RegisterInsert(1, {TRUE})
  \/ \E id \in Ids, upd \in DupInputs : UpdateStart(1, 1, id, upd)
  \/ UpdateApply(1)
  \/ SaveAndRespond(1)

SpecDup == InitDup /\ [][NextDup]_vars

\* C23: when a register, createUser or updateUser request collides on both its
\* email and its username with existing accounts, whether one account holds
\* both or two accounts one each, the error is the email Conflict, never the
\* username one (an update of an account that does not exist is Not Found).
C23_EmailCollisionFirst ==
  resp.op \in {"register", "create", "update"} /\ resp.status # NOT_FOUND
  /\ resp.snap.dupEmail /\ resp.snap.dupUsername =>
    /\ resp.status = CONFLICT
    /\ resp.error \in {"User with this email already exists", "Email already exists"}

====
